---- MODULE Spec2Model ----
(***************************************************************************)
(* indiekku: fleet controller for dedicated game-server containers.       *)
(*                                                                         *)
(* The module models                                                       *)
(*   - state.StateHandler        (in-memory registry of running servers),  *)
(*   - api.ApiHandler            (StartServer / StopServer handlers),      *)
(*   - security.CSRFManager, security.SessionStore, the auth middlewares   *)
(*     and the /api/v1 router.                                             *)
(*                                                                         *)
(* Strings that the code takes apart (ports, Authorization headers) are    *)
(* sequences of characters; opaque identifiers (names, tokens, session     *)
(* ids) are TLA+ strings.                                                  *)
(***************************************************************************)
EXTENDS Integers, Sequences, FiniteSets, TLC

\* ------------------------------------------------------------------------
\* Bounds of the model
\* ------------------------------------------------------------------------
\* largest player count a caller passes to UpdatePlayerCount
MaxCount == 1
\* number of API requests the model issues
NumReqs == 3

\* ------------------------------------------------------------------------
\* Program constants
\* ------------------------------------------------------------------------
\* docker.GetDefaultPort(): base of the automatic port range
DefaultPort == 7777
\* width of the range GetNextAvailablePort scans
PortScan == 1000
\* validation.MinPort / validation.MaxPort
MinPort == 1
MaxPort == 65535
\* StartServer: attempts at generating an unused name
maxRetries == 10

\* ------------------------------------------------------------------------
\* Strings as character sequences
\* ------------------------------------------------------------------------
\* the decimal digit characters, by value
Digits == <<"0", "1", "2", "3", "4", "5", "6", "7", "8", "9">>

RECURSIVE Itoa(_)
\* fmt.Sprintf("%d", n) for n >= 0: the decimal digits of n
Itoa(n) == IF n < 10 THEN <<Digits[n + 1]>> ELSE Itoa(n \div 10) \o <<Digits[(n % 10) + 1]>>

\* the empty string
Empty == <<>>

IsDigit(c) == \E d \in 1..10 : Digits[d] = c

DigitValue(c) == (CHOOSE d \in 1..10 : Digits[d] = c) - 1

RECURSIVE DigitsValue(_)
\* the number a string of decimal digits denotes
DigitsValue(str) ==
    IF str = Empty THEN 0
    ELSE 10 * DigitsValue(SubSeq(str, 1, Len(str) - 1)) + DigitValue(str[Len(str)])

\* strconv.Atoi succeeds: an optional sign followed by at least one digit, all digits
AtoiOk(str) ==
    LET body == IF str # Empty /\ str[1] \in {"+", "-"} THEN Tail(str) ELSE str
    IN  body # Empty /\ \A k \in 1..Len(body) : IsDigit(body[k])

\* strconv.Atoi's value (for strings on which it succeeds)
Atoi(str) ==
    IF str[1] = "-" THEN 0 - DigitsValue(Tail(str))
    ELSE IF str[1] = "+" THEN DigitsValue(Tail(str))
    ELSE DigitsValue(str)

\* validation.ValidatePort: empty (auto-assign), or a number in [MinPort, MaxPort]
ValidatePort(port) ==
    \/ port = Empty
    \/ AtoiOk(port) /\ Atoi(port) >= MinPort /\ Atoi(port) <= MaxPort

\* namegen vocabulary (a two-noun cut of the real lists)
Adjectives == {<<"i">>}
Nouns == {<<"s">>, <<"h">>}

\* namegen.Generate: fmt.Sprintf("%s-%s", adjective, noun), both drawn at random
Generate == {a \o <<"-">> \o n : a \in Adjectives, n \in Nouns}

\* container names callers pass
Names == Generate

\* port strings a caller of the registry passes: none, and two decimal ports
StatePorts == {Empty, Itoa(DefaultPort), Itoa(DefaultPort + 1)}

VARIABLES
    servers,      \* StateHandler.servers: container name -> ServerInfo
    ports,        \* StateHandler.ports: the keys mapped to true
    reqs,         \* per handler goroutine: the request it serves, or served last
    issued,       \* number of requests that have arrived
    overlap,      \* the two handlers' requests ran at the same time
    image,        \* docker: the image tag exists
    containers,   \* docker: names of the running containers
    pollCancels,  \* ApiHandler.pollCancels: container name -> poller context
    pollers,      \* running StartPolling goroutines: context -> name, cancelled
    events,       \* history: the server_events rows, oldest first
    apiKey,       \* the configured API key (ApiHandler.apiKey, SessionStore.apiKey)
    csrfTokens,   \* CSRFManager.tokens: the keys mapped to true
    accepts,      \* per CSRF token: how many requests it has let through
    sessions,     \* SessionStore.sessions: session id -> Session
    hist,         \* per session id ever minted: when it was created, whether revoked
    now,          \* wall clock (hours for sessions, seconds for join tokens)
    ticks,        \* number of clock advances so far
    match,        \* matchmaking.Handler: the request it serves, or served last
    maxPlayers,   \* per instance: the capacity its agent reported last (0: none yet)
    jt,           \* the join token in flight: how it was minted, presented, judged
    active,       \* docker: the recipe in dockerfiles/active.Dockerfile (0: none written)
    built,        \* docker: the recipe the image tag was built from
    serverDir,    \* the files in the staging directory, .gitkeep aside
    uploadHistory,      \* history: the upload_history rows, oldest first
    dockerfileHistory   \* history: the dockerfile_history rows, oldest first

stateVars == <<servers, ports>>
apiVars == <<reqs, issued, overlap, image, containers, pollCancels, pollers, events>>
authVars == <<apiKey, csrfTokens, accepts, sessions, hist, now, ticks>>
matchVars == <<match, maxPlayers, jt>>
buildVars == <<active, built, serverDir, uploadHistory, dockerfileHistory>>
vars == <<servers, ports, reqs, issued, overlap, image, containers, pollCancels, pollers, events,
          apiKey, csrfTokens, accepts, sessions, hist, now, ticks, match, maxPlayers, jt,
          active, built, serverDir, uploadHistory, dockerfileHistory>>

\* no matchmaking request and no join token yet
NoMatch == match = <<>> /\ maxPlayers = <<>> /\ jt = <<>>

\* no recipe written, nothing staged, nothing recorded; an image tag that
\* exists was built from the fallback recipe
NoBuild ==
    /\ active = 0
    /\ built = 0
    /\ serverDir = {}
    /\ uploadHistory = <<>>
    /\ dockerfileHistory = <<>>

\* ------------------------------------------------------------------------
\* state.StateHandler
\* ------------------------------------------------------------------------
ServerInfo(name, port, count, started) ==
    [ContainerName |-> name, Port |-> port, PlayerCount |-> count, StartedAt |-> started]

NewStateHandler ==
    /\ servers = <<>>
    /\ ports = {}

\* h.servers[info.ContainerName] = info; h.ports[info.Port] = true
AddServer(info) ==
    /\ servers' = [n \in DOMAIN servers \cup {info.ContainerName} |->
                      IF n = info.ContainerName THEN info ELSE servers[n]]
    /\ ports' = ports \cup {info.Port}

\* the remove that forgets the instance and keeps its port reserved
RemoveServerKeepsPort(containerName) ==
    /\ ports' = ports
    /\ servers' = [n \in DOMAIN servers \ {containerName} |-> servers[n]]

\* delete(h.ports, server.Port); delete(h.servers, containerName) when present
RemoveServer(containerName) ==
    IF containerName \in DOMAIN servers
    THEN /\ ports' = ports \ {servers[containerName].Port}
         /\ servers' = [n \in DOMAIN servers \ {containerName} |-> servers[n]]
    ELSE UNCHANGED <<servers, ports>>

\* GetServer's error result: the name is not registered
GetServerFails(containerName) == containerName \notin DOMAIN servers

\* the snapshot ListServers returns (order unspecified)
ListServers == {servers[n] : n \in DOMAIN servers}

\* the update that registers a name it does not find
UpdatePlayerCountUpsert(containerName, count) ==
    /\ ports' = ports
    /\ servers' = [n \in DOMAIN servers \cup {containerName} |->
                      IF n = containerName
                      THEN IF n \in DOMAIN servers THEN [servers[n] EXCEPT !.PlayerCount = count]
                           ELSE ServerInfo(n, Empty, count, 0)
                      ELSE servers[n]]

\* server.PlayerCount = count when present; error (and no change) otherwise
UpdatePlayerCount(containerName, count) ==
    /\ ports' = ports
    /\ servers' = IF containerName \in DOMAIN servers
                  THEN [servers EXCEPT ![containerName].PlayerCount = count]
                  ELSE servers

IsPortInUse(port) == port \in ports

\* first port in [basePort, basePort+1000) whose decimal string is not a key
\* of h.ports; basePort itself when all are taken
GetNextAvailablePort(basePort) ==
    LET free == {p \in basePort .. (basePort + PortScan - 1) : Itoa(p) \notin ports}
    IN  IF free = {} THEN Itoa(basePort)
        ELSE Itoa(CHOOSE p \in free : \A q \in free : p <= q)

\* the security plane before any key is configured or request served
NoSecurity ==
    /\ apiKey = Empty
    /\ csrfTokens = {}
    /\ accepts = <<>>
    /\ sessions = <<>>
    /\ hist = <<>>
    /\ now = 0
    /\ ticks = 0

\* ------------------------------------------------------------------------
\* The registry driven directly by its callers (as the package's tests do)
\* ------------------------------------------------------------------------
InitState ==
    /\ NewStateHandler
    /\ reqs = <<>>
    /\ issued = 0
    /\ overlap = FALSE
    /\ image = FALSE
    /\ containers = {}
    /\ pollCancels = <<>>
    /\ pollers = <<>>
    /\ events = <<>>
    /\ NoSecurity
    /\ NoBuild
    /\ NoMatch

DoAddServer ==
    /\ \E n \in Names, p \in StatePorts : AddServer(ServerInfo(n, p, 0, 0))
    /\ UNCHANGED <<apiVars, authVars, matchVars, buildVars>>

DoRemoveServer ==
    /\ \E n \in Names : RemoveServer(n)
    /\ UNCHANGED <<apiVars, authVars, matchVars, buildVars>>

DoUpdatePlayerCount ==
    /\ \E n \in Names, c \in 0..MaxCount : UpdatePlayerCount(n, c)
    /\ UNCHANGED <<apiVars, authVars, matchVars, buildVars>>

NextState == DoAddServer \/ DoRemoveServer \/ DoUpdatePlayerCount

SpecState == InitState /\ [][NextState]_vars

\* ------------------------------------------------------------------------
\* api.ApiHandler: StartServer and StopServer.  Requests are served by
\* concurrent handler goroutines; every step is one call into a lock-guarded
\* component or into the container runtime.
\* ------------------------------------------------------------------------
\* the goroutines serving requests at the same time
Handlers == {1, 2}

\* port strings a start request carries: none, a given port, an invalid one
StartPorts == {Empty, Itoa(DefaultPort), <<"0">>}

Idle == [kind |-> "none", pc |-> "idle", port |-> Empty, name |-> Empty,
         i |-> 0, status |-> 0, fault |-> FALSE, live |-> FALSE, id |-> 0]

Free(h) == reqs[h].pc \in {"idle", "done"}
At(h, kind, pc) == reqs[h].kind = kind /\ reqs[h].pc = pc

\* a request as the handler first sees it; `id` numbers the requests, `fault`
\* notes that the runtime or the build failed under it, and `live` that the
\* name it carries was registered when it arrived
NewReq(kind, port, name) ==
    [kind |-> kind, pc |-> "arrived", port |-> port, name |-> name,
     i |-> 0, status |-> 0, fault |-> FALSE, live |-> name \in DOMAIN servers,
     id |-> issued + 1]

\* handler h, the first free one, takes the next request; `overlap` notes
\* whether the other handler's request is still running at that moment
Arrive(h, req) ==
    /\ Free(h) /\ issued < NumReqs
    /\ \A g \in Handlers : g < h => ~Free(g)
    /\ issued' = issued + 1
    /\ overlap' = (\E g \in Handlers \ {h} : ~Free(g))
    /\ reqs' = [reqs EXCEPT ![h] = req]

\* the response is written; the loop counter dies with the handler's frame
Respond(h, code) == reqs' = [reqs EXCEPT ![h].pc = "done", ![h].status = code, ![h].i = 0]
Fail(h, code) ==
    reqs' = [reqs EXCEPT ![h].pc = "done", ![h].status = code, ![h].i = 0, ![h].fault = TRUE]
Goto(h, pc) == reqs' = [reqs EXCEPT ![h].pc = pc]

InitApi ==
    /\ NewStateHandler
    /\ reqs = [h \in Handlers |-> Idle]
    /\ issued = 0
    /\ overlap = FALSE
    /\ image = FALSE
    /\ containers = {}
    /\ pollCancels = <<>>
    /\ pollers = <<>>
    /\ events = <<>>
    /\ NoSecurity
    /\ NoBuild
    /\ NoMatch

\* POST /servers/start arrives with a JSON body; validation.ValidatePort(req.Port),
\* then the port is determined: GetNextAvailablePort for an empty port, 409
\* when a given port is in use
StartPort(h) ==
    /\ \E p \in StartPorts :
         LET req == NewReq("start", p, Empty) IN
         Arrive(h, IF ~ValidatePort(p) THEN [req EXCEPT !.pc = "done", !.status = 400]
                   ELSE IF p = Empty
                        THEN [req EXCEPT !.pc = "name", !.port = GetNextAvailablePort(DefaultPort)]
                   ELSE IF IsPortInUse(p) THEN [req EXCEPT !.pc = "done", !.status = 409]
                   ELSE [req EXCEPT !.pc = "name"])
    /\ UNCHANGED <<servers, ports, image, containers, pollCancels, pollers, events, authVars, matchVars, buildVars>>

\* one iteration of the name loop: Generate, then GetServer on the result
StartName(h) ==
    /\ At(h, "start", "name")
    /\ \E name \in Generate :
         IF GetServerFails(name)
         THEN reqs' = [reqs EXCEPT ![h].pc = "image", ![h].name = name, ![h].i = 0]
         ELSE IF reqs[h].i = maxRetries - 1 THEN Respond(h, 500)
         ELSE reqs' = [reqs EXCEPT ![h].i = @ + 1]
    /\ UNCHANGED <<servers, ports, issued, overlap, image, containers, pollCancels, pollers, events, authVars, matchVars, buildVars>>

\* docker.ImageExists; docker.BuildImage when it does not (the build can fail)
StartImage(h) ==
    /\ At(h, "start", "image")
    /\ \/ image /\ Goto(h, "run") /\ image' = image
       \/ ~image /\ Goto(h, "run") /\ image' = TRUE
       \/ ~image /\ Fail(h, 500) /\ image' = image
    /\ UNCHANGED <<servers, ports, issued, overlap, containers, pollCancels, pollers, events, authVars, matchVars, buildVars>>

\* the start whose failed run leaves the chosen port reserved
StartRunLeavesPort(h) ==
    /\ At(h, "start", "run")
    /\ \/ Goto(h, "add") /\ containers' = containers \cup {reqs[h].name} /\ ports' = ports
       \/ Fail(h, 500) /\ containers' = containers /\ ports' = ports \cup {reqs[h].port}
    /\ UNCHANGED <<servers, issued, overlap, image, pollCancels, pollers, events, authVars, matchVars, buildVars>>

\* docker.RunContainer: `docker run --rm -d --name <name>` is started; the
\* call fails only when the process cannot be started.  The runtime itself
\* refuses a second container under a name that is running.
StartRun(h) ==
    /\ At(h, "start", "run")
    /\ \/ Goto(h, "add") /\ containers' = containers \cup {reqs[h].name}
       \/ Fail(h, 500) /\ containers' = containers
    /\ UNCHANGED <<servers, ports, issued, overlap, image, pollCancels, pollers, events, authVars, matchVars, buildVars>>

\* h.stateManager.AddServer(&state.ServerInfo{...})
StartAdd(h) ==
    /\ At(h, "start", "add")
    /\ AddServer(ServerInfo(reqs[h].name, reqs[h].port, 0, 0))
    /\ Goto(h, "poll")
    /\ UNCHANGED <<issued, overlap, image, containers, pollCancels, pollers, events, authVars, matchVars, buildVars>>

\* h.pollCancels[containerName] = cancel (under pollMu); go docker.StartPolling
StartPoll(h) ==
    /\ At(h, "start", "poll")
    /\ pollCancels' = (reqs[h].name :> reqs[h].id) @@ pollCancels
    /\ pollers' = (reqs[h].id :> [name |-> reqs[h].name, cancelled |-> FALSE]) @@ pollers
    /\ Goto(h, "record")
    /\ UNCHANGED <<servers, ports, issued, overlap, image, containers, events, authVars, matchVars, buildVars>>

\* the start that answers 500 when the event log cannot be written
StartRecordOrFail(h) ==
    /\ At(h, "start", "record")
    /\ \/ /\ events' = Append(events, [type |-> "start", name |-> reqs[h].name,
                                       port |-> reqs[h].port])
          /\ Respond(h, 201)
       \/ /\ events' = events
          /\ Respond(h, 500)
    /\ UNCHANGED <<servers, ports, issued, overlap, image, containers, pollCancels, pollers, authVars, matchVars, buildVars>>

\* RecordServerStart (a failed write is logged and ignored), then 201
StartRecord(h) ==
    /\ At(h, "start", "record")
    /\ \/ events' = Append(events, [type |-> "start", name |-> reqs[h].name,
                                    port |-> reqs[h].port])
       \/ events' = events
    /\ Respond(h, 201)
    /\ UNCHANGED <<servers, ports, issued, overlap, image, containers, pollCancels, pollers, authVars, matchVars, buildVars>>

\* DELETE /servers/:name arrives (with a name that passes ValidateContainerName)
StopArrive(h) ==
    /\ \E n \in Names : Arrive(h, [NewReq("stop", Empty, n) EXCEPT !.pc = "get"])
    /\ UNCHANGED <<servers, ports, image, containers, pollCancels, pollers, events, authVars, matchVars, buildVars>>

\* h.stateManager.GetServer(containerName): 404 when absent
StopGet(h) ==
    /\ At(h, "stop", "get")
    /\ IF GetServerFails(reqs[h].name) THEN Respond(h, 404)
       ELSE reqs' = [reqs EXCEPT ![h].pc = "stop", ![h].port = servers[reqs[h].name].Port]
    /\ UNCHANGED <<servers, ports, issued, overlap, image, containers, pollCancels, pollers, events, authVars, matchVars, buildVars>>

\* the stop that drops the instance although the runtime could not stop it
StopContainerThenForget(h) ==
    /\ At(h, "stop", "stop")
    /\ \/ /\ reqs[h].name \in containers
          /\ containers' = containers \ {reqs[h].name}
          /\ Goto(h, "record")
          /\ UNCHANGED <<servers, ports>>
       \/ /\ reqs[h].name \notin containers
          /\ containers' = containers
          /\ Respond(h, 500)
          /\ UNCHANGED <<servers, ports>>
       \/ /\ reqs[h].name \in containers
          /\ containers' = containers
          /\ Fail(h, 500)
          /\ RemoveServer(reqs[h].name)
    /\ UNCHANGED <<issued, overlap, image, pollCancels, pollers, events, authVars, matchVars, buildVars>>

\* docker.StopContainer: `docker stop <name>` fails when no such container
\* runs, and may fail in the runtime otherwise
StopContainer(h) ==
    /\ At(h, "stop", "stop")
    /\ \/ /\ reqs[h].name \in containers
          /\ containers' = containers \ {reqs[h].name}
          /\ Goto(h, "record")
       \/ /\ reqs[h].name \notin containers
          /\ containers' = containers
          /\ Respond(h, 500)
       \/ /\ reqs[h].name \in containers
          /\ containers' = containers
          /\ Fail(h, 500)
    /\ UNCHANGED <<servers, ports, issued, overlap, image, pollCancels, pollers, events, authVars, matchVars, buildVars>>

\* RecordServerStop (a failed write is logged and ignored)
StopRecord(h) ==
    /\ At(h, "stop", "record")
    /\ \/ events' = Append(events, [type |-> "stop", name |-> reqs[h].name,
                                    port |-> reqs[h].port])
       \/ events' = events
    /\ Goto(h, "cancel")
    /\ UNCHANGED <<servers, ports, issued, overlap, image, containers, pollCancels, pollers, authVars, matchVars, buildVars>>

\* under pollMu: cancel() and delete(h.pollCancels, name) when an entry exists
StopCancel(h) ==
    /\ At(h, "stop", "cancel")
    /\ IF reqs[h].name \in DOMAIN pollCancels
       THEN /\ pollers' = [c \in DOMAIN pollers |->
                             IF c = pollCancels[reqs[h].name]
                             THEN [pollers[c] EXCEPT !.cancelled = TRUE] ELSE pollers[c]]
            /\ pollCancels' = [n \in DOMAIN pollCancels \ {reqs[h].name} |-> pollCancels[n]]
       ELSE UNCHANGED <<pollCancels, pollers>>
    /\ Goto(h, "remove")
    /\ UNCHANGED <<servers, ports, issued, overlap, image, containers, events, authVars, matchVars, buildVars>>

\* h.stateManager.RemoveServer(containerName), then 200
StopRemove(h) ==
    /\ At(h, "stop", "remove")
    /\ RemoveServer(reqs[h].name)
    /\ Respond(h, 200)
    /\ UNCHANGED <<issued, overlap, image, containers, pollCancels, pollers, events, authVars, matchVars, buildVars>>

\* docker.StartPolling: the goroutine returns once its context is cancelled
PollerExit(c) ==
    /\ c \in DOMAIN pollers /\ pollers[c].cancelled
    /\ pollers' = [d \in DOMAIN pollers \ {c} |-> pollers[d]]
    /\ UNCHANGED <<servers, ports, reqs, issued, overlap, image, containers, pollCancels, events, authVars, matchVars, buildVars>>

StartServer(h) ==
    \/ StartPort(h) \/ StartName(h) \/ StartImage(h)
    \/ StartRun(h) \/ StartAdd(h) \/ StartPoll(h) \/ StartRecord(h)

StopServer(h) ==
    \/ StopArrive(h) \/ StopGet(h) \/ StopContainer(h) \/ StopRecord(h)
    \/ StopCancel(h) \/ StopRemove(h)

Next ==
    \/ \E h \in Handlers : StartServer(h) \/ StopServer(h)
    \/ \E c \in 1..NumReqs : PollerExit(c)

Spec == InitApi /\ [][Next]_vars

\* C3: two start requests that run concurrently and both succeed register
\* instances with different ports and different names.
ConcurrentStartsDistinct ==
    \A g \in Handlers, h \in Handlers :
        ( /\ g # h /\ overlap
          /\ reqs[g].kind = "start" /\ reqs[g].status = 201
          /\ reqs[h].kind = "start" /\ reqs[h].status = 201 )
        => /\ reqs[g].port # reqs[h].port
           /\ reqs[g].name # reqs[h].name

\* C4: of two concurrent stop requests for the same live instance, exactly
\* one is answered 200 and the other 404.
ConcurrentStopsOne200One404 ==
    \A g \in Handlers, h \in Handlers :
        ( /\ g # h /\ overlap
          /\ reqs[g].kind = "stop" /\ reqs[g].pc = "done" /\ reqs[g].live
          /\ reqs[h].kind = "stop" /\ reqs[h].pc = "done" /\ reqs[h].live
          /\ reqs[g].name = reqs[h].name
          /\ ~reqs[g].fault /\ ~reqs[h].fault )
        => {reqs[g].status, reqs[h].status} = {200, 404}

\* C1: after any sequence of add and remove, the number of reserved ports
\* equals the number of live instances that have a port, and every reserved
\* port is the port of exactly one live instance.
PortSetMatchesInstances ==
    /\ Cardinality(ports) = Cardinality({n \in DOMAIN servers : servers[n].Port # Empty})
    /\ \A p \in ports : Cardinality({n \in DOMAIN servers : servers[n].Port = p}) = 1

\* C2: after every mutation no two live instances share a name or a port.
UniqueNamesAndPorts ==
    \A s1 \in ListServers, s2 \in ListServers :
        s1 # s2 => /\ s1.ContainerName # s2.ContainerName
                   /\ (s1.Port # Empty => s1.Port # s2.Port)

\* ------------------------------------------------------------------------
\* The admission plane: AuthMiddleware, CSRFManager, SessionStore, and the
\* /api/v1 router of SetupRouter
\* ------------------------------------------------------------------------
\* number of clock advances the model makes
MaxTicks == 2
\* security.SessionDuration, in hours
SessionDuration == 24

Key1 == <<"k", "1">>
Key2 == <<"k", "2">>
Bearer == <<"B", "e", "a", "r", "e", "r">>
LowerBearer == <<"b", "e", "a", "r", "e", "r">>
Space == <<" ">>

\* Authorization header values a client sends: none, the well-formed header
\* with the right and with a wrong key, a lower-case scheme, a bare key, the
\* scheme alone, the scheme with an empty key, and two separating spaces
AuthHeaders ==
    { Empty,
      Bearer \o Space \o Key1,
      Bearer \o Space \o Key2,
      LowerBearer \o Space \o Key1,
      Key1,
      Bearer,
      Bearer \o Space,
      Bearer \o Space \o Space \o Key1 }

\* strings.SplitN(str, " ", 2)
SplitN2(str) ==
    LET hits == {k \in 1..Len(str) : str[k] = " "}
    IN  IF hits = {} THEN <<str>>
        ELSE LET k == CHOOSE x \in hits : \A y \in hits : x <= y
             IN  <<SubSeq(str, 1, k - 1), SubSeq(str, k + 1, Len(str))>>

\* the mutation of AuthMiddleware that does not look at the scheme
AuthMiddlewareAnyScheme(authHeader, validAPIKey) ==
    /\ authHeader # Empty
    /\ LET parts == SplitN2(authHeader)
       IN  /\ Len(parts) = 2
           /\ parts[2] # Empty /\ validAPIKey # Empty /\ parts[2] = validAPIKey

\* security.AuthMiddleware lets the request through (otherwise 401 and Abort)
AuthMiddleware(authHeader, validAPIKey) ==
    /\ authHeader # Empty
    /\ LET parts == SplitN2(authHeader)
       IN  /\ Len(parts) = 2 /\ parts[1] = Bearer
           /\ parts[2] # Empty /\ validAPIKey # Empty /\ parts[2] = validAPIKey

\* CSRFManager.ValidateToken under the mutation that accepts every token
ValidateTokenAny(token) == TRUE

\* CSRFManager.ValidateToken: m.tokens[token]
ValidateToken(token) == token \in csrfTokens

\* CSRFManager.InvalidateToken: delete(m.tokens, token)
InvalidateToken(token) == csrfTokens' = csrfTokens \ {token}

\* CSRFManager.GenerateToken: m.tokens[token] = true for a fresh token
GenerateToken(token) == csrfTokens' = csrfTokens \cup {token}

\* gin's c.PostForm: the body's form fields are parsed for POST, PUT and PATCH
PostForm(method, form) == IF method \in {"POST", "PUT", "PATCH"} THEN form ELSE ""

\* the token CSRFMiddleware looks at: the X-CSRF-Token header, or the
\* csrf_token form field when the header is empty
CSRFToken(method, hdr, form) == IF hdr # "" THEN hdr ELSE PostForm(method, form)

\* CSRFMiddleware's method test
CSRFChecked(method) == method \in {"POST", "PUT", "DELETE", "PATCH"}

\* SessionStore.ValidateSession under the mutation that ignores ExpiresAt
ValidateSessionNoExpiry(id) == id \in DOMAIN sessions

\* SessionStore.ValidateSession's result: the session exists and
\* time.Now() is not after its ExpiresAt
ValidateSession(id) ==
    /\ id \in DOMAIN sessions
    /\ ~(now > sessions[id].ExpiresAt)

\* SessionStore.DeleteSession: the map without id
DeleteSession(id) == [s \in DOMAIN sessions \ {id} |-> sessions[s]]

\* the map ValidateSession leaves behind: an expired session is deleted
AfterValidateSession(id) ==
    IF id \in DOMAIN sessions /\ now > sessions[id].ExpiresAt
    THEN DeleteSession(id) ELSE sessions

\* SessionStore.InvalidateAllSessions: the map emptied
InvalidateAllSessions == <<>>

\* SessionStore.CreateSession: the map with a fresh session stamped now
CreateSession(id) ==
    (id :> [CreatedAt |-> now, ExpiresAt |-> now + SessionDuration]) @@ sessions

\* SessionStore.ValidateAPIKey
ValidateAPIKey(key) == key # Empty /\ apiKey # Empty /\ key = apiKey

\* security.SessionAuthMiddleware lets the request through: a valid session
\* cookie, or else an Authorization header "Bearer <API key>"
SessionAuthMiddleware(cookie, authHeader) ==
    \/ cookie # "" /\ ValidateSession(cookie)
    \/ /\ authHeader # Empty
       /\ Len(authHeader) > 7
       /\ SubSeq(authHeader, 1, 7) = Bearer \o Space
       /\ ValidateAPIKey(SubSeq(authHeader, 8, Len(authHeader)))

\* the routes of the /api/v1 group the model serves, and their methods
Routes == {"csrf-token", "servers", "heartbeat", "stop"}
Protected == {"heartbeat", "stop"}
Method(route) ==
    IF route = "heartbeat" THEN "POST" ELSE IF route = "stop" THEN "DELETE" ELSE "GET"

\* the one instance the fleet holds when the admission plane is exercised
FirstName == <<"i", "-", "s">>

NoReq == [kind |-> "none", pc |-> "idle", route |-> "none", authz |-> Empty, cookie |-> "",
          key |-> Empty, hdr |-> "", form |-> "", tok |-> "", port |-> Empty, name |-> Empty,
          i |-> 0, status |-> 0, fault |-> FALSE, live |-> FALSE, ran |-> FALSE,
          bearer |-> FALSE, session |-> FALSE, id |-> 0]

\* the request's Authorization header is "Bearer <the configured key>"
GoodBearer(authHeader) == apiKey # Empty /\ authHeader = Bearer \o Space \o apiKey

\* the cookie names a session that was minted, has not been logged out or
\* rotated away, and is at most SessionDuration old
SessionLive(cookie) ==
    /\ cookie \in DOMAIN hist
    /\ ~hist[cookie].loggedOut /\ ~hist[cookie].rotated
    /\ now <= hist[cookie].born + SessionDuration

\* credentials a request carries: any Authorization header without a cookie,
\* or a cookie of a session minted earlier with no header or the right one
Creds ==
    {[authz |-> a, cookie |-> ""] : a \in AuthHeaders}
    \cup {[authz |-> a, cookie |-> c] : a \in {Empty, Bearer \o Space \o Key1}, c \in DOMAIN hist}

\* CSRF tokens a client presents: none, one never minted, or a minted one
Presented == {"", "x"} \cup DOMAIN accepts
CsrfInputs ==
    {[hdr |-> t, form |-> ""] : t \in Presented}
    \cup {[hdr |-> "", form |-> t] : t \in Presented}

AuthReq(kind, route, cred) ==
    [NoReq EXCEPT !.kind = kind, !.pc = "arrived", !.route = route,
                  !.authz = cred.authz, !.cookie = cred.cookie,
                  !.bearer = GoodBearer(cred.authz), !.session = SessionLive(cred.cookie),
                  !.id = issued + 1]

Done(req, code) == [req EXCEPT !.pc = "done", !.status = code]

\* the fleet after one successful start; the admission plane as constructed
InitAuth ==
    /\ servers = (FirstName :> ServerInfo(FirstName, Itoa(DefaultPort), 0, 0))
    /\ ports = {Itoa(DefaultPort)}
    /\ reqs = [h \in Handlers |-> NoReq]
    /\ issued = 0
    /\ overlap = FALSE
    /\ image = TRUE
    /\ containers = {FirstName}
    /\ pollCancels = (FirstName :> 0)
    /\ pollers = (0 :> [name |-> FirstName, cancelled |-> FALSE])
    /\ events = <<[type |-> "start", name |-> FirstName, port |-> Itoa(DefaultPort)]>>
    /\ apiKey \in {Empty, Key1}
    /\ csrfTokens = {}
    /\ accepts = <<>>
    /\ sessions = <<>>
    /\ hist = <<>>
    /\ now = 0
    /\ ticks = 0
    /\ NoMatch
    /\ NoBuild

\* a request to a route of the /api/v1 group: AuthMiddleware, then for a GET
\* route the handler (GetCSRFToken mints a token, ListServers reads the
\* registry), for a CSRF-protected route CSRFMiddleware up to ValidateToken
ApiRequest(h) ==
    /\ \E route \in Routes, cred \in Creds :
         LET req == AuthReq("api", route, cred) IN
         IF ~AuthMiddleware(cred.authz, apiKey)
         THEN Arrive(h, Done(req, 401)) /\ UNCHANGED <<csrfTokens, accepts>>
         ELSE IF route = "csrf-token"
         THEN /\ Arrive(h, Done([req EXCEPT !.ran = TRUE, !.tok = ToString(issued + 1)], 200))
              /\ GenerateToken(ToString(issued + 1))
              /\ accepts' = (ToString(issued + 1) :> 0) @@ accepts
         ELSE IF route = "servers"
         THEN Arrive(h, Done([req EXCEPT !.ran = TRUE], 200)) /\ UNCHANGED <<csrfTokens, accepts>>
         ELSE /\ UNCHANGED <<csrfTokens, accepts>>
              /\ \E in \in CsrfInputs :
                   LET token == CSRFToken(Method(route), in.hdr, in.form)
                       sent == [req EXCEPT !.hdr = in.hdr, !.form = in.form]
                   IN  IF CSRFChecked(Method(route)) /\ (token = "" \/ ~ValidateToken(token))
                       THEN Arrive(h, Done(sent, 403))
                       ELSE Arrive(h, [sent EXCEPT !.pc = "csrf", !.tok = token])
    /\ UNCHANGED <<servers, ports, image, containers, pollCancels, pollers, events,
                   apiKey, sessions, hist, now, ticks, matchVars, buildVars>>

\* CSRFMiddleware: manager.InvalidateToken(token), then c.Next(): the handler
\* starts.  Heartbeat binds a JSON body (400 when the body is a form);
\* StopServer takes the name from the path.
CsrfInvalidate(h) ==
    /\ At(h, "api", "csrf")
    /\ InvalidateToken(reqs[h].tok)
    /\ accepts' = (reqs[h].tok :> (IF reqs[h].tok \in DOMAIN accepts
                                    THEN accepts[reqs[h].tok] ELSE 0) + 1) @@ accepts
    /\ IF reqs[h].route = "heartbeat"
       THEN IF reqs[h].form # ""
            THEN reqs' = [reqs EXCEPT ![h] = Done([@ EXCEPT !.ran = TRUE], 400)]
            ELSE reqs' = [reqs EXCEPT ![h].ran = TRUE, ![h].pc = "update"]
       ELSE \E n \in Names :
              reqs' = [reqs EXCEPT ![h].ran = TRUE, ![h].kind = "stop", ![h].pc = "get",
                                   ![h].name = n, ![h].live = n \in DOMAIN servers]
    /\ UNCHANGED <<servers, ports, issued, overlap, image, containers, pollCancels, pollers,
                   events, apiKey, sessions, hist, now, ticks, matchVars, buildVars>>

\* Heartbeat: h.stateManager.UpdatePlayerCount(req.ContainerName, req.PlayerCount);
\* 404 when the name is not registered, 200 otherwise
Heartbeat(h) ==
    /\ At(h, "api", "update")
    /\ \E n \in Names, c \in 0..MaxCount :
         /\ UpdatePlayerCount(n, c)
         /\ Respond(h, IF GetServerFails(n) THEN 404 ELSE 200)
    /\ UNCHANGED <<issued, overlap, image, containers, pollCancels, pollers, events, authVars, matchVars, buildVars>>

\* API keys a login request submits
LoginKeys == {Empty, Key1, Key2}

\* HandleLogin under the mutation that leaves the sessions in place
LoginVerifyNoRotation(h) ==
    /\ \E key \in LoginKeys :
         LET req == [AuthReq("login", "login", [authz |-> Empty, cookie |-> ""])
                       EXCEPT !.key = key]
         IN  IF key # apiKey
             THEN Arrive(h, Done(req, 401)) /\ UNCHANGED hist
             ELSE /\ Arrive(h, [req EXCEPT !.pc = "create"])
                  /\ hist' = [s \in DOMAIN hist |-> [hist[s] EXCEPT !.rotated = TRUE]]
    /\ UNCHANGED <<servers, ports, image, containers, pollCancels, pollers, events,
                   apiKey, csrfTokens, accepts, sessions, now, ticks, matchVars, buildVars>>

\* HandleLogin up to the rotation: the submitted key is compared with the
\* configured one (401 when they differ), then InvalidateAllSessions
LoginVerify(h) ==
    /\ \E key \in LoginKeys :
         LET req == [AuthReq("login", "login", [authz |-> Empty, cookie |-> ""])
                       EXCEPT !.key = key]
         IN  IF key # apiKey
             THEN Arrive(h, Done(req, 401)) /\ UNCHANGED <<sessions, hist>>
             ELSE /\ Arrive(h, [req EXCEPT !.pc = "create"])
                  /\ sessions' = InvalidateAllSessions
                  /\ hist' = [s \in DOMAIN hist |-> [hist[s] EXCEPT !.rotated = TRUE]]
    /\ UNCHANGED <<servers, ports, image, containers, pollCancels, pollers, events,
                   apiKey, csrfTokens, accepts, now, ticks, matchVars, buildVars>>

\* HandleLogin from CreateSession on: the session is stored, the cookie set, 200
LoginCreate(h) ==
    /\ At(h, "login", "create")
    /\ sessions' = CreateSession(ToString(reqs[h].id))
    /\ hist' = (ToString(reqs[h].id) :>
                  [born |-> now, loggedOut |-> FALSE, rotated |-> FALSE]) @@ hist
    /\ reqs' = [reqs EXCEPT ![h] = Done([@ EXCEPT !.cookie = ToString(reqs[h].id)], 200)]
    /\ UNCHANGED <<servers, ports, issued, overlap, image, containers, pollCancels, pollers,
                   events, apiKey, csrfTokens, accepts, now, ticks, matchVars, buildVars>>

HandleLogin(h) == LoginVerify(h) \/ LoginCreate(h)

\* HandleLogout: DeleteSession(cookie) when the request has the cookie; the
\* cookie is cleared and the client redirected
HandleLogout(h) ==
    /\ \E cookie \in {""} \cup DOMAIN hist :
         /\ Arrive(h, Done(AuthReq("logout", "logout", [authz |-> Empty, cookie |-> cookie]), 302))
         /\ sessions' = IF cookie # "" THEN DeleteSession(cookie) ELSE sessions
         /\ hist' = [s \in DOMAIN hist |->
                       IF s = cookie THEN [hist[s] EXCEPT !.loggedOut = TRUE] ELSE hist[s]]
    /\ UNCHANGED <<servers, ports, image, containers, pollCancels, pollers, events,
                   apiKey, csrfTokens, accepts, now, ticks, matchVars, buildVars>>

\* a request to a handler behind SessionAuthMiddleware: the cookie is looked
\* up with ValidateSession (which deletes an expired session), then the
\* Authorization header is tried; 401 when neither authenticates
SessionRequest(h) ==
    /\ \E cred \in Creds :
         LET req == AuthReq("session", "session", cred)
             ok == SessionAuthMiddleware(cred.cookie, cred.authz)
         IN  /\ Arrive(h, Done([req EXCEPT !.ran = ok], IF ok THEN 200 ELSE 401))
             /\ sessions' = IF cred.cookie # "" THEN AfterValidateSession(cred.cookie)
                            ELSE sessions
    /\ UNCHANGED <<servers, ports, image, containers, pollCancels, pollers, events,
                   apiKey, csrfTokens, accepts, hist, now, ticks, matchVars, buildVars>>

\* the wall clock advances by an hour, or by a whole session lifetime
Tick(d) ==
    /\ ticks < MaxTicks
    /\ now' = now + d
    /\ ticks' = ticks + 1
    /\ UNCHANGED <<servers, ports, reqs, issued, overlap, image, containers, pollCancels,
                   pollers, events, apiKey, csrfTokens, accepts, sessions, hist, matchVars, buildVars>>

\* SessionStore.cleanupExpired: the hourly sweep deletes every expired session
cleanupExpired ==
    /\ \E s \in DOMAIN sessions : now > sessions[s].ExpiresAt
    /\ sessions' = [s \in {t \in DOMAIN sessions : ~(now > sessions[t].ExpiresAt)} |-> sessions[s]]
    /\ UNCHANGED <<servers, ports, reqs, issued, overlap, image, containers, pollCancels,
                   pollers, events, apiKey, csrfTokens, accepts, hist, now, ticks, matchVars, buildVars>>

NextAuth ==
    \/ \E h \in Handlers :
         \/ ApiRequest(h) \/ CsrfInvalidate(h) \/ Heartbeat(h)
         \/ StopGet(h) \/ StopContainer(h) \/ StopRecord(h) \/ StopCancel(h) \/ StopRemove(h)
         \/ HandleLogin(h)
    \/ \E c \in 0..NumReqs : PollerExit(c)

\* the /api/v1 router with its middlewares, and the login that mints sessions
SpecAuth == InitAuth /\ [][NextAuth]_vars

NextSession ==
    \/ \E h \in Handlers : HandleLogin(h) \/ HandleLogout(h) \/ SessionRequest(h)
    \/ \E d \in {1, SessionDuration} : Tick(d)
    \/ cleanupExpired

\* the session store over time: login, logout, session-authenticated requests
SpecSession == InitAuth /\ [][NextSession]_vars

\* C5: a CSRF token lets at most one state-changing request through, whether
\* the requests that carry it come one after the other or at the same time.
TokenSingleUse == \A t \in DOMAIN accepts : accepts[t] <= 1

\* C7: a request to a route of the /api/v1 group whose Authorization header
\* is not "Bearer <the configured non-empty key>" is answered 401 and its
\* handler is never run.
UnauthenticatedAnswered401 ==
    \A h \in Handlers :
        (reqs[h].route \in Routes /\ ~reqs[h].bearer)
        => (reqs[h].pc = "done" /\ reqs[h].status = 401 /\ ~reqs[h].ran)

\* C7 case: the right key under a lower-case scheme was refused
LowerCaseSchemeRefused ==
    \E h \in Handlers :
        /\ reqs[h].route \in Routes /\ apiKey = Key1
        /\ reqs[h].authz = LowerBearer \o Space \o Key1
        /\ reqs[h].status = 401 /\ ~reqs[h].ran

\* C8: a request to a route of the /api/v1 group that carries a live session
\* cookie or the correct Bearer key is authenticated (never answered 401).
EitherCredentialAuthenticates ==
    \A h \in Handlers :
        (reqs[h].route \in Routes /\ reqs[h].pc = "done"
           /\ (reqs[h].session \/ reqs[h].bearer))
        => reqs[h].status # 401

LoginRotatesSessions ==
    [][\A h \in Handlers :
         /\ (reqs[h].pc = "create" /\ reqs'[h].kind = "login" /\ reqs'[h].status = 200)
            => ValidateSession(ToString(reqs[h].id))'
         /\ \A s \in DOMAIN hist : hist[s].rotated => ~ValidateSession(s)'
         /\ ( /\ reqs'[h].id # reqs[h].id /\ reqs'[h].kind = "session"
              /\ ~reqs'[h].bearer
              /\ reqs'[h].cookie \in DOMAIN hist /\ hist[reqs'[h].cookie].rotated )
            => reqs'[h].status = 401]_vars

\* C6 case: after a second login, a request bearing the first login's
\* session was answered 401 while the second login's session is valid
RotatedSessionRefused ==
    \E h \in Handlers :
        /\ reqs[h].kind = "session" /\ reqs[h].status = 401
        /\ reqs[h].cookie \in DOMAIN hist /\ hist[reqs[h].cookie].rotated
        /\ \E s \in DOMAIN sessions : ValidateSession(s)

\* C10: a request that bears a session id (and no API key) is authenticated
\* exactly when the session was minted, has not been logged out or rotated
\* away, and the clock is not past its creation time plus 24 hours.
SessionAuthenticatesOnlyWhileLive ==
    [][\A h \in Handlers :
         ( /\ reqs'[h].id # reqs[h].id /\ reqs'[h].kind = "session"
           /\ ~reqs'[h].bearer /\ reqs'[h].cookie # "" )
         => (reqs'[h].status = 200 <=> SessionLive(reqs'[h].cookie))]_vars

\* C10 case: a session that was neither logged out nor rotated away is
\* presented after its 24 hours and refused
ExpiredSessionRefused ==
    \E h \in Handlers :
        /\ reqs[h].kind = "session" /\ reqs[h].status = 401
        /\ reqs[h].cookie \in DOMAIN hist
        /\ ~hist[reqs[h].cookie].loggedOut /\ ~hist[reqs[h].cookie].rotated
        /\ now > hist[reqs[h].cookie].born + SessionDuration

\* ------------------------------------------------------------------------
\* matchmaking: join tokens (GenerateJoinToken, ValidateJoinToken, sign)
\* ------------------------------------------------------------------------
\* the printable ASCII characters from code 32 to code 126, without the
\* grave accent (code 96)
Ascii ==
    << " ", "!", "\"", "#", "$", "%", "&", "'", "(", ")", "*", "+", ",", "-", ".", "/",
       "0", "1", "2", "3", "4", "5", "6", "7", "8", "9", ":", ";", "<", "=", ">", "?",
       "@", "A", "B", "C", "D", "E", "F", "G", "H", "I", "J", "K", "L", "M", "N", "O",
       "P", "Q", "R", "S", "T", "U", "V", "W", "X", "Y", "Z", "[", "\\", "]", "^", "_",
       "a", "b", "c", "d", "e", "f", "g", "h", "i", "j", "k", "l", "m", "n", "o",
       "p", "q", "r", "s", "t", "u", "v", "w", "x", "y", "z", "{", "|", "}", "~" >>

\* the byte of a character, and the character of a byte (bytes outside the
\* printable range have no character of their own here)
OrdOf == [c \in {Ascii[x] : x \in 1..Len(Ascii)} |->
            LET k == CHOOSE x \in 1..Len(Ascii) : Ascii[x] = c
            IN  IF k <= 64 THEN 31 + k ELSE 32 + k]
Ord(c) == OrdOf[c]
Chr(n) == IF n \in 32..95 THEN Ascii[n - 31]
          ELSE IF n \in 97..126 THEN Ascii[n - 32]
          ELSE "unprintable"

\* base64.RawURLEncoding's alphabet, by value
B64 ==
    << "A", "B", "C", "D", "E", "F", "G", "H", "I", "J", "K", "L", "M", "N", "O", "P",
       "Q", "R", "S", "T", "U", "V", "W", "X", "Y", "Z", "a", "b", "c", "d", "e", "f",
       "g", "h", "i", "j", "k", "l", "m", "n", "o", "p", "q", "r", "s", "t", "u", "v",
       "w", "x", "y", "z", "0", "1", "2", "3", "4", "5", "6", "7", "8", "9", "-", "_" >>

B64ValueOf == [c \in {B64[k] : k \in 1..Len(B64)} |-> (CHOOSE k \in 1..Len(B64) : B64[k] = c) - 1]
B64Value(c) == B64ValueOf[c]

\* base64.RawURLEncoding.EncodeToString: every three bytes make a 24-bit
\* group written as four characters of six bits; a last group of one or two
\* bytes is filled with zero bits and written as two or three characters,
\* with no padding characters
EncodeToString(str) ==
    LET byte(i) == IF i <= Len(str) THEN Ord(str[i]) ELSE 0
        group(g) == 65536 * byte(3 * g - 2) + 256 * byte(3 * g - 1) + byte(3 * g)
        shift == <<262144, 4096, 64, 1>>
    IN  [k \in 1..((8 * Len(str) + 5) \div 6) |->
            B64[((group(((k - 1) \div 4) + 1) \div shift[((k - 1) % 4) + 1]) % 64) + 1]]

\* base64.RawURLEncoding.DecodeString succeeds: only alphabet characters, and
\* not a length that leaves a lone character
DecodeOk(str) ==
    /\ \A k \in 1..Len(str) : \E v \in 1..Len(B64) : B64[v] = str[k]
    /\ Len(str) % 4 # 1

\* base64.RawURLEncoding.DecodeString's bytes: every four characters make a
\* 24-bit group read as three bytes; a last group of two or three characters
\* gives one or two bytes
DecodeString(str) ==
    LET sextet(i) == IF i <= Len(str) THEN B64Value(str[i]) ELSE 0
        group(g) == 262144 * sextet(4 * g - 3) + 4096 * sextet(4 * g - 2)
                    + 64 * sextet(4 * g - 1) + sextet(4 * g)
        shift == <<65536, 256, 1>>
    IN  [k \in 1..((6 * Len(str)) \div 8) |->
            Chr((group(((k - 1) \div 3) + 1) \div shift[((k - 1) % 3) + 1]) % 256)]

\* sign: base64 of the HMAC-SHA256 of data under secret.  The MAC is taken
\* as collision-free: the digest stands for the pair (secret, data) itself.
sign(secret, data) == EncodeToString(Itoa(Len(secret)) \o <<":">> \o secret \o data)

\* json string escaping under the mutation that escapes nothing
EscapeNothing(str) == str

RECURSIVE Escape(_)
\* encoding/json's string escaping: quote and backslash behind a backslash,
\* the HTML characters as \u00XX
Escape(str) ==
    IF str = <<>> THEN <<>>
    ELSE LET c == Head(str) IN
         (IF c \in {"\"", "\\"} THEN <<"\\", c>>
          ELSE IF c = "<" THEN <<"\\", "u", "0", "0", "3", "c">>
          ELSE IF c = ">" THEN <<"\\", "u", "0", "0", "3", "e">>
          ELSE IF c = "&" THEN <<"\\", "u", "0", "0", "2", "6">>
          ELSE <<c>>) \o Escape(Tail(str))

\* strconv's decimal of a signed integer
FormatInt(n) == IF n < 0 THEN <<"-">> \o Itoa(0 - n) ELSE Itoa(n)

\* json.Marshal(joinTokenPayload{ContainerName, Port, ExpiresAt})
Marshal(payload) ==
    <<"{", "\"", "c", "\"", ":", "\"">> \o Escape(payload.ContainerName)
    \o <<"\"", ",", "\"", "p", "\"", ":", "\"">> \o Escape(payload.Port)
    \o <<"\"", ",", "\"", "e", "x", "p", "\"", ":">> \o FormatInt(payload.ExpiresAt) \o <<"}">>

\* strings.HasPrefix(str[k-1:], pre), with positions counted from 1
HasPrefixAt(str, k, pre) ==
    k + Len(pre) - 1 <= Len(str) /\ SubSeq(str, k, k + Len(pre) - 1) = pre

HexDigits == <<"0", "1", "2", "3", "4", "5", "6", "7", "8", "9", "a", "b", "c", "d", "e", "f">>
IsHex(c) == \E d \in 1..16 : HexDigits[d] = c
HexValue(c) == (CHOOSE d \in 1..16 : HexDigits[d] = c) - 1

RECURSIVE ReadString(_, _, _)
\* encoding/json reading a string literal from position k, after its opening
\* quote: the characters up to the closing quote with the escapes undone
ReadString(str, k, acc) ==
    IF k > Len(str) THEN [ok |-> FALSE, val |-> acc, next |-> k]
    ELSE IF str[k] = "\"" THEN [ok |-> TRUE, val |-> acc, next |-> k + 1]
    ELSE IF str[k] = "\\"
         THEN IF k + 1 <= Len(str) /\ str[k + 1] \in {"\"", "\\", "/"}
              THEN ReadString(str, k + 2, Append(acc, str[k + 1]))
              ELSE IF /\ k + 5 <= Len(str) /\ str[k + 1] = "u"
                      /\ \A j \in 2..5 : IsHex(str[k + j])
              THEN ReadString(str, k + 6,
                     Append(acc, Chr(4096 * HexValue(str[k + 2]) + 256 * HexValue(str[k + 3])
                                     + 16 * HexValue(str[k + 4]) + HexValue(str[k + 5]))))
              ELSE [ok |-> FALSE, val |-> acc, next |-> k]
    ELSE ReadString(str, k + 1, Append(acc, str[k]))

\* a JSON integer: an optional minus sign and digits
IsJsonInt(str) ==
    LET body == IF str # <<>> /\ str[1] = "-" THEN Tail(str) ELSE str
    IN  body # <<>> /\ \A k \in 1..Len(body) : IsDigit(body[k])

\* json.Unmarshal into joinTokenPayload, for documents of the shape Marshal
\* writes: [ok, payload]
Unmarshal(str) ==
    LET bad == [ok |-> FALSE, payload |-> [ContainerName |-> <<>>, Port |-> <<>>, ExpiresAt |-> 0]]
        c == ReadString(str, Len(<<"{", "\"", "c", "\"", ":", "\"">>) + 1, <<>>)
        p == ReadString(str, c.next + Len(<<",", "\"", "p", "\"", ":", "\"">>), <<>>)
        num == SubSeq(str, p.next + Len(<<",", "\"", "e", "x", "p", "\"", ":">>), Len(str) - 1)
    IN  IF ~HasPrefixAt(str, 1, <<"{", "\"", "c", "\"", ":", "\"">>) \/ ~c.ok THEN bad
        ELSE IF ~HasPrefixAt(str, c.next, <<",", "\"", "p", "\"", ":", "\"">>) \/ ~p.ok THEN bad
        ELSE IF ~HasPrefixAt(str, p.next, <<",", "\"", "e", "x", "p", "\"", ":">>) \/ str[Len(str)] # "}" \/ ~IsJsonInt(num)
        THEN bad
        ELSE [ok |-> TRUE,
              payload |-> [ContainerName |-> c.val, Port |-> p.val, ExpiresAt |-> Atoi(num)]]

\* strings.SplitN(str, ".", 2)
SplitToken(str) ==
    LET hits == {k \in 1..Len(str) : str[k] = "."}
    IN  IF hits = {} THEN <<str>>
        ELSE LET k == CHOOSE x \in hits : \A y \in hits : x <= y
             IN  <<SubSeq(str, 1, k - 1), SubSeq(str, k + 1, Len(str))>>

\* GenerateJoinToken: encodedPayload + "." + sign(secret, encodedPayload),
\* the payload expiring ttl after time.Now()
GenerateJoinToken(secret, containerName, port, ttl) ==
    LET payload == [ContainerName |-> containerName, Port |-> port, ExpiresAt |-> now + ttl]
        encodedPayload == EncodeToString(Marshal(payload))
    IN  encodedPayload \o <<".">> \o sign(secret, encodedPayload)

\* the signature test under the mutation that accepts every signature
SignatureAny(secret, encodedPayload, providedSig) == TRUE

\* hmac.Equal(sign(secret, encodedPayload), providedSig)
SignatureOk(secret, encodedPayload, providedSig) == sign(secret, encodedPayload) = providedSig

\* the expiry test under the mutation that never finds a token expired
ExpiredNever(expiresAt) == FALSE

\* time.Now().Unix() > payload.ExpiresAt
Expired(expiresAt) == now > expiresAt

\* ValidateJoinToken: [err, containerName, port], err empty on success
ValidateJoinToken(secret, token) ==
    LET parts == SplitToken(token)
        no(err) == [err |-> err, containerName |-> <<>>, port |-> <<>>]
    IN  IF Len(parts) # 2 THEN no("invalid token format")
        ELSE IF ~SignatureOk(secret, parts[1], parts[2]) THEN no("invalid token signature")
        ELSE IF ~DecodeOk(parts[1]) THEN no("invalid token encoding")
        ELSE LET doc == Unmarshal(DecodeString(parts[1])) IN
             IF ~doc.ok THEN no("invalid token payload")
             ELSE IF Expired(doc.payload.ExpiresAt) THEN no("token expired")
             ELSE [err |-> "", containerName |-> doc.payload.ContainerName,
                   port |-> doc.payload.Port]

\* matchmaking.joinTokenTTL, in seconds
joinTokenTTL == 60

\* signing secrets, instance names, ports and lifetimes tokens are minted
\* from (the tests mint an expired token with a negative lifetime)
Secrets == {<<>>, <<"k">>, <<"j">>}
TokenNames == {FirstName, <<"<", "\"", "a">>}
TokenPorts == {Itoa(DefaultPort), Itoa(DefaultPort + 1)}
TokenTTLs == {0 - 1, 1, joinTokenTTL}

\* what a holder does to a token before presenting it
Alterations == {"payload", "signature", "nodot", "extended", "truncated"}

NoToken == [pc |-> "none", secret |-> <<>>, name |-> <<>>, port |-> <<>>, ttl |-> 0, born |-> 0,
            token |-> <<>>, how |-> "none", presented |-> <<>>, vsecret |-> <<>>, at |-> 0,
            err |-> "", outName |-> <<>>, outPort |-> <<>>]

InitToken ==
    /\ NewStateHandler
    /\ reqs = [h \in Handlers |-> Idle]
    /\ issued = 0
    /\ overlap = FALSE
    /\ image = FALSE
    /\ containers = {}
    /\ pollCancels = <<>>
    /\ pollers = <<>>
    /\ events = <<>>
    /\ NoSecurity
    /\ NoBuild
    /\ match = <<>>
    /\ maxPlayers = <<>>
    /\ jt = NoToken

\* a token is minted: GenerateJoinToken(secret, name, port, ttl)
MintToken ==
    /\ jt.pc = "none"
    /\ \E secret \in Secrets, name \in TokenNames, port \in TokenPorts, ttl \in TokenTTLs :
         LET token == GenerateJoinToken(secret, name, port, ttl) IN
         jt' = [NoToken EXCEPT !.pc = "minted", !.secret = secret, !.name = name, !.port = port,
                               !.ttl = ttl, !.born = now, !.token = token, !.presented = token]
    /\ UNCHANGED <<stateVars, apiVars, authVars, match, maxPlayers, buildVars>>

\* the holder alters the token: the first payload character replaced (as the
\* tests do), the last signature character replaced, the separator removed,
\* the payload swapped for one that expires a lifetime later, or the
\* signature cut short
AlterToken ==
    /\ jt.pc = "minted" /\ jt.how = "none"
    /\ \E how \in Alterations :
         LET t == jt.token
             parts == SplitToken(t)
             later == SplitToken(GenerateJoinToken(<<>>, jt.name, jt.port,
                                                   jt.born + jt.ttl + joinTokenTTL - now))
         IN  jt' = [jt EXCEPT !.how = how,
                     !.presented =
                        IF how = "payload" THEN <<"A">> \o Tail(t)
                        ELSE IF how = "signature"
                        THEN SubSeq(t, 1, Len(t) - 1) \o <<IF t[Len(t)] = "A" THEN "B" ELSE "A">>
                        ELSE IF how = "nodot" THEN parts[1] \o parts[2]
                        ELSE IF how = "extended" THEN later[1] \o <<".">> \o parts[2]
                        ELSE SubSeq(t, 1, Len(t) - 1)]
    /\ UNCHANGED <<stateVars, apiVars, authVars, match, maxPlayers, buildVars>>

\* the game server judges the presented token: ValidateJoinToken(secret, token)
JudgeToken ==
    /\ jt.pc = "minted"
    /\ \E vsecret \in Secrets :
         LET r == ValidateJoinToken(vsecret, jt.presented) IN
         jt' = [jt EXCEPT !.pc = "judged", !.vsecret = vsecret, !.at = now, !.err = r.err,
                          !.outName = r.containerName, !.outPort = r.port]
    /\ UNCHANGED <<stateVars, apiVars, authVars, match, maxPlayers, buildVars>>

\* the clock of the token holder and the game server advances by a second,
\* or by a whole token lifetime
TokenTick(d) ==
    /\ ticks < MaxTicks
    /\ now' = now + d
    /\ ticks' = ticks + 1
    /\ UNCHANGED <<stateVars, apiVars, apiKey, csrfTokens, accepts, sessions, hist, matchVars, buildVars>>

NextToken ==
    \/ MintToken \/ AlterToken \/ JudgeToken
    \/ \E d \in {1, joinTokenTTL} : TokenTick(d)

\* join tokens minted, altered, and judged as time passes
SpecToken == InitToken /\ [][NextToken]_vars

\* C11: a token judged with the secret it was minted with, unaltered, at the
\* instant it was minted with a positive lifetime, is accepted and yields
\* exactly the name and the port it was minted from.
TokenRoundTrip ==
    (jt.pc = "judged" /\ jt.how = "none" /\ jt.vsecret = jt.secret
       /\ jt.ttl > 0 /\ jt.at = jt.born)
    => (jt.err = "" /\ jt.outName = jt.name /\ jt.outPort = jt.port)

\* C11 case: a name that needs JSON escaping came back unchanged
EscapedNameRoundTrip ==
    /\ jt.pc = "judged" /\ jt.how = "none" /\ jt.vsecret = jt.secret
    /\ jt.ttl > 0 /\ jt.at = jt.born
    /\ jt.name = <<"<", "\"", "a">> /\ jt.outName = jt.name /\ jt.err = ""

RejectedFromExpiry ==
    (jt.pc = "judged" /\ jt.at >= jt.born + jt.ttl) => jt.err # ""

\* C13: a token judged at a time after its expiry (the time it was minted
\* plus its lifetime) is rejected; at the second of expiry itself it still
\* validates.
RejectedAfterExpiry ==
    (jt.pc = "judged" /\ jt.at > jt.born + jt.ttl) => jt.err # ""

\* C13 case: a genuine token is judged with the right secret one second past
\* its expiry and rejected as expired
GenuineTokenExpired ==
    /\ jt.pc = "judged" /\ jt.how = "none" /\ jt.vsecret = jt.secret
    /\ jt.ttl > 0 /\ jt.at = jt.born + jt.ttl + 1
    /\ jt.err = "token expired"

\* ------------------------------------------------------------------------
\* matchmaking.Handler: POST /match and POST /join/:name.  The matchmaker
\* reaches the fleet through the API only: it lists the instances and, when
\* none has a slot, asks the API to start one.
\* ------------------------------------------------------------------------
\* matchmaking.defaultMaxPlayers
defaultMaxPlayers == 4

\* the handler's signing secret
MatchSecret == <<"k">>

\* what the in-container agent reports: <<player_count, max_players>>
AgentReports == {<<defaultMaxPlayers, 0>>, <<0, 1>>, <<1, 1>>}

NoRequest == [kind |-> "none", pc |-> "idle", name |-> <<>>, listing |-> <<>>, h |-> 0,
              status |-> 0, port |-> <<>>, token |-> <<>>, spawned |-> FALSE,
              presented |-> <<>>]

\* the poller's update of an instance's occupancy: player count and capacity
\* are stored when the instance is registered, nothing changes otherwise
UpdateServerStatus(containerName, playerCount, maxPlayersReported) ==
    /\ ports' = ports
    /\ servers' = IF containerName \in DOMAIN servers
                  THEN [servers EXCEPT ![containerName].PlayerCount = playerCount]
                  ELSE servers
    /\ maxPlayers' = IF containerName \in DOMAIN servers
                     THEN (containerName :> maxPlayersReported) @@ maxPlayers
                     ELSE maxPlayers

\* GET /api/v1/servers as the matchmaker's client decodes it: the instances
\* in the order the registry's map iteration produced
Orders == {o \in [1..Cardinality(DOMAIN servers) -> DOMAIN servers] :
             \A i, j \in DOMAIN o : i # j => o[i] # o[j]}
Listing(o) ==
    [i \in DOMAIN o |->
        [ContainerName |-> o[i], Port |-> servers[o[i]].Port,
         PlayerCount |-> servers[o[i]].PlayerCount,
         MaxPlayers |-> IF o[i] \in DOMAIN maxPlayers THEN maxPlayers[o[i]] ELSE 0]]

\* the reported capacity as it is, with no default
effectiveMaxReported(s) == s.MaxPlayers

effectiveMax(s) ==
    IF s.MaxPlayers > 0 THEN s.MaxPlayers ELSE defaultMaxPlayers

\* index of the first listed server with PlayerCount < effectiveMax, 0 for nil
findOpenServer(listing) ==
    LET open == {i \in DOMAIN listing : listing[i].PlayerCount < effectiveMax(listing[i])}
    IN  IF open = {} THEN 0 ELSE CHOOSE i \in open : \A j \in open : i <= j

InitMatch ==
    /\ NewStateHandler
    /\ reqs = [h \in Handlers |-> Idle]
    /\ issued = 0
    /\ overlap = FALSE
    /\ image = FALSE
    /\ containers = {}
    /\ pollCancels = <<>>
    /\ pollers = <<>>
    /\ events = <<>>
    /\ NoSecurity
    /\ NoBuild
    /\ match = NoRequest
    /\ maxPlayers = <<>>
    /\ jt = <<>>

MatchIdle == match.pc \in {"idle", "done"}

\* POST /match when the listing has a server with an open slot: the first
\* such server and a join token for it are returned
MatchFound ==
    /\ MatchIdle
    /\ \E o \in Orders :
         LET listing == Listing(o)
             i == findOpenServer(listing)
         IN  /\ i # 0
             /\ match' = [NoRequest EXCEPT !.kind = "match", !.pc = "done", !.listing = listing,
                            !.status = 200, !.name = listing[i].ContainerName,
                            !.port = listing[i].Port,
                            !.token = GenerateJoinToken(MatchSecret, listing[i].ContainerName,
                                                        listing[i].Port, joinTokenTTL)]
    /\ UNCHANGED <<stateVars, apiVars, authVars, maxPlayers, jt, buildVars>>

\* POST /match (or /join) when the API cannot be listed
ListFails(kind) ==
    /\ MatchIdle
    /\ match' = [NoRequest EXCEPT !.kind = kind, !.pc = "done", !.status = 500]
    /\ UNCHANGED <<stateVars, apiVars, authVars, maxPlayers, jt, buildVars>>

\* POST /match when no listed server has an open slot: h.indiekku.StartServer("")
\* posts a start request with no port to the API, where handler h takes it
MatchSpawn(h) ==
    /\ MatchIdle
    /\ Free(h) /\ issued < NumReqs
    /\ \E o \in Orders :
         /\ findOpenServer(Listing(o)) = 0
         /\ match' = [NoRequest EXCEPT !.kind = "match", !.pc = "spawning",
                                       !.listing = Listing(o), !.h = h]
    /\ Arrive(h, [NewReq("start", Empty, Empty) EXCEPT
                    !.pc = "name", !.port = GetNextAvailablePort(DefaultPort)])
    /\ UNCHANGED <<servers, ports, image, containers, pollCancels, pollers, events, authVars,
                   maxPlayers, jt, buildVars>>

\* the API has answered the start request: 201 gives the new instance's name
\* and port, for which a join token is issued; anything else is a 500
MatchSpawned ==
    /\ match.pc = "spawning"
    /\ reqs[match.h].pc = "done"
    /\ match' = IF reqs[match.h].status = 201
                THEN [match EXCEPT !.pc = "done", !.status = 200, !.spawned = TRUE,
                        !.name = reqs[match.h].name, !.port = reqs[match.h].port,
                        !.token = GenerateJoinToken(MatchSecret, reqs[match.h].name,
                                                    reqs[match.h].port, joinTokenTTL)]
                ELSE [match EXCEPT !.pc = "done", !.status = 500]
    /\ UNCHANGED <<stateVars, apiVars, authVars, maxPlayers, jt, buildVars>>

Match ==
    \/ MatchFound
    \/ ListFails("match")
    \/ \E h \in Handlers : MatchSpawn(h)
    \/ MatchSpawned

\* POST /join/:name, whatever the request carries besides the name: 404 when
\* the name is not listed, 409 when the server is full, else the server's
\* address and a fresh join token
Join ==
    /\ MatchIdle
    /\ \E containerName \in Names, presented \in {<<>>, match.token} :
         LET listing == Listing(CHOOSE o \in Orders : TRUE)
             found == {i \in DOMAIN listing : listing[i].ContainerName = containerName}
             target == listing[CHOOSE i \in found : TRUE]
             req == [NoRequest EXCEPT !.kind = "join", !.pc = "done", !.name = containerName,
                                      !.presented = presented]
         IN  match' = IF found = {} THEN [req EXCEPT !.status = 404]
                      ELSE IF target.PlayerCount >= effectiveMax(target)
                      THEN [req EXCEPT !.status = 409]
                      ELSE [req EXCEPT !.status = 200, !.port = target.Port,
                              !.token = GenerateJoinToken(MatchSecret, target.ContainerName,
                                                          target.Port, joinTokenTTL)]
    /\ UNCHANGED <<stateVars, apiVars, authVars, maxPlayers, jt, buildVars>>

\* a tick of a live poller: the agent's report is pushed into the registry
PollerUpdate ==
    /\ \E c \in DOMAIN pollers, report \in AgentReports :
         /\ ~pollers[c].cancelled
         /\ UpdateServerStatus(pollers[c].name, report[1], report[2])
    /\ UNCHANGED <<apiVars, authVars, match, jt, buildVars>>

NextMatch ==
    \/ Match
    \/ Join
    \/ ListFails("join")
    \/ PollerUpdate
    \/ \E h \in Handlers :
         \/ StartName(h) \/ StartImage(h) \/ StartRun(h)
         \/ StartAdd(h) \/ StartPoll(h) \/ StartRecord(h)

\* the matchmaker in front of the API
SpecMatch == InitMatch /\ [][NextMatch]_vars

\* a listed instance has a free slot: its player count is below its reported
\* capacity, or below the default when none was reported
HasSlot(s) ==
    s.PlayerCount < (IF s.MaxPlayers = 0 THEN defaultMaxPlayers ELSE s.MaxPlayers)
OpenSlots == {i \in DOMAIN match.listing : HasSlot(match.listing[i])}

JoinRequiresValidToken ==
    (match.kind = "join" /\ match.pc = "done" /\ match.status = 200)
    => LET r == ValidateJoinToken(MatchSecret, match.presented) IN
       r.err = "" /\ r.containerName = match.name

\* ------------------------------------------------------------------------
\* Port allocation: start requests that carry no port, and stops, served
\* concurrently
\* ------------------------------------------------------------------------
\* requests served in a run: one start more than NumReqs, so that a start
\* can follow two overlapping starts and a stop
PortReqs == NumReqs + 1

\* POST /servers/start with an empty port, taken by the first free handler:
\* the port is GetNextAvailablePort(docker.GetDefaultPort())
StartNoPort(h) ==
    /\ Free(h) /\ issued < PortReqs
    /\ \A g \in Handlers : g < h => ~Free(g)
    /\ issued' = issued + 1
    /\ overlap' = (\E g \in Handlers \ {h} : ~Free(g))
    /\ reqs' = [reqs EXCEPT ![h] = [NewReq("start", Empty, Empty) EXCEPT
                    !.pc = "name", !.port = GetNextAvailablePort(DefaultPort)]]
    /\ UNCHANGED <<servers, ports, image, containers, pollCancels, pollers, events, authVars, matchVars, buildVars>>

NextPorts ==
    \/ \E h \in Handlers :
         \/ StartNoPort(h) \/ StartName(h) \/ StartImage(h) \/ StartRun(h)
         \/ StartAdd(h) \/ StartPoll(h) \/ StartRecord(h)
         \/ StopServer(h)
    \/ \E c \in 1..PortReqs : PollerExit(c)

SpecPorts == InitApi /\ [][NextPorts]_vars

\* the ports the live instances hold, and the smallest port of the scan
\* range that none of them holds
HeldPorts == {servers[n].Port : n \in DOMAIN servers}
SmallestFreePort ==
    LET free == {p \in DefaultPort .. (DefaultPort + PortScan - 1) : Itoa(p) \notin HeldPorts}
    IN  Itoa(CHOOSE p \in free : \A q \in free : p <= q)

\* C16: a start request without a port is assigned, at the step that takes
\* it, the smallest port of [7777, 8777) that no live instance holds.
NoPortStartGetsSmallestFree ==
    [][\A h \in Handlers :
         (issued' = issued + 1 /\ reqs'[h].id = issued' /\ reqs'[h].kind = "start")
         => reqs'[h].port = SmallestFreePort]_vars

\* ------------------------------------------------------------------------
\* The registry with its caller's last call on record
\* ------------------------------------------------------------------------
\* `live` and `port`: whether the name was registered when the call was made,
\* and the port it had; `again`: the call before was a remove of the same name
NoCall == [call |-> "none", name |-> Empty, port |-> Empty, count |-> 0,
           live |-> FALSE, again |-> FALSE]

Call(call, name, port, count) ==
    [call |-> call, name |-> name, count |-> count,
     port |-> IF call = "add" THEN port
              ELSE IF name \in DOMAIN servers THEN servers[name].Port ELSE Empty,
     live |-> name \in DOMAIN servers,
     again |-> call = "remove" /\ reqs.call = "remove" /\ reqs.name = name]

InitRegistry ==
    /\ NewStateHandler
    /\ reqs = NoCall
    /\ issued = 0
    /\ overlap = FALSE
    /\ image = FALSE
    /\ containers = {}
    /\ pollCancels = <<>>
    /\ pollers = <<>>
    /\ events = <<>>
    /\ NoSecurity
    /\ NoBuild
    /\ NoMatch

CallAddServer ==
    /\ \E n \in Names, p \in StatePorts :
         AddServer(ServerInfo(n, p, 0, 0)) /\ reqs' = Call("add", n, p, 0)
    /\ UNCHANGED <<issued, overlap, image, containers, pollCancels, pollers, events, authVars, matchVars, buildVars>>

CallRemoveServer ==
    /\ \E n \in Names : RemoveServer(n) /\ reqs' = Call("remove", n, Empty, 0)
    /\ UNCHANGED <<issued, overlap, image, containers, pollCancels, pollers, events, authVars, matchVars, buildVars>>

CallUpdatePlayerCount ==
    /\ \E n \in Names, c \in 0..MaxCount :
         UpdatePlayerCount(n, c) /\ reqs' = Call("update", n, Empty, c)
    /\ UNCHANGED <<issued, overlap, image, containers, pollCancels, pollers, events, authVars, matchVars, buildVars>>

NextRegistry == CallAddServer \/ CallRemoveServer \/ CallUpdatePlayerCount

SpecRegistry == InitRegistry /\ [][NextRegistry]_vars

\* C17: a remove leaves the name absent and the port the instance had
\* unreserved; a remove of a name that is not registered (removed before, or
\* never added) changes neither the instances nor the port set.
RemoveIdempotentFreesPort ==
    [][reqs'.call = "remove" =>
         /\ reqs'.name \notin DOMAIN servers'
         /\ reqs'.name \in DOMAIN servers => servers[reqs'.name].Port \notin ports'
         /\ reqs'.name \notin DOMAIN servers => (servers' = servers /\ ports' = ports)]_vars

\* C17 case: an instance was removed and removed again while another
\* instance stays registered with its port
RemovedTwice ==
    /\ reqs.call = "remove" /\ reqs.again /\ ~reqs.live
    /\ reqs.name \notin DOMAIN servers
    /\ \E n \in DOMAIN servers : servers[n].Port \in ports

\* C18: a heartbeat answered 404 (its name is not registered) changes neither
\* the instances nor the port set; a heartbeat for a registered name is
\* answered 200 and changes at most the player count of one instance.
HeartbeatChangesOnlyOccupancy ==
    [][\A h \in Handlers :
         (At(h, "api", "update") /\ reqs'[h].pc = "done") =>
            /\ ports' = ports
            /\ reqs'[h].status \in {200, 404}
            /\ reqs'[h].status = 404 => servers' = servers
            /\ reqs'[h].status = 200 =>
                 \E n \in DOMAIN servers :
                    servers' = [servers EXCEPT ![n].PlayerCount = servers'[n].PlayerCount]]_vars

\* C18 case: a heartbeat was answered 200 and the instance's player count is
\* the one it reported, its port still reserved
HeartbeatCounted ==
    \E h \in Handlers :
       /\ reqs[h].route = "heartbeat" /\ reqs[h].pc = "done" /\ reqs[h].status = 200
       /\ FirstName \in DOMAIN servers
       /\ servers[FirstName].PlayerCount > 0
       /\ servers[FirstName].Port \in ports

EventLogFailureIgnored ==
    [][\A h \in Handlers :
         /\ (At(h, "start", "record") /\ reqs'[h] # reqs[h])
            => /\ reqs'[h] = [reqs[h] EXCEPT !.pc = "done", !.status = 201, !.i = 0]
               /\ UNCHANGED <<servers, ports, containers, pollCancels, pollers>>
         /\ (At(h, "stop", "record") /\ reqs'[h] # reqs[h])
            => /\ reqs'[h] = [reqs[h] EXCEPT !.pc = "cancel"]
               /\ UNCHANGED <<servers, ports, containers, pollCancels, pollers>>]_vars

\* C20 case: the only request so far, a start, was answered 201 and its
\* instance is registered although no row reached the event log
StartedWithoutEvent ==
    /\ issued = 1 /\ events = <<>>
    /\ reqs[1].kind = "start" /\ reqs[1].pc = "done" /\ reqs[1].status = 201
    /\ reqs[1].name \in DOMAIN servers /\ reqs[1].port \in ports


\* ------------------------------------------------------------------------
\* The active recipe: api.SetActiveDockerfile beside StartServer.  A request
\* carries a recipe of its own, named by the request's number; a `docker
\* build` runs for minutes, so the start's build is taken in two steps.
\* ------------------------------------------------------------------------
\* how the request names the recipe: a multipart file, or a preset in JSON
RecipeForms == {"file", "preset"}

\* POST /dockerfiles/active arrives: the content is validated
\* (ValidateDockerfile, or ValidatePresetName and GetPreset) and written to
\* active.Dockerfile; a failed write is answered 500 for a file and 400 for
\* a preset
SetArrive(h) ==
    /\ \E form \in RecipeForms, valid \in BOOLEAN :
         LET req == NewReq("recipe", Empty, Empty) IN
         IF ~valid
         THEN Arrive(h, [req EXCEPT !.pc = "done", !.status = 400]) /\ active' = active
         ELSE \/ Arrive(h, [req EXCEPT !.pc = "record"]) /\ active' = issued + 1
              \/ /\ Arrive(h, [req EXCEPT !.pc = "done", !.fault = TRUE,
                                          !.status = IF form = "file" THEN 500 ELSE 400])
                 /\ active' = active
    /\ UNCHANGED <<servers, ports, image, containers, pollCancels, pollers, events, authVars,
                   matchVars, built, serverDir, uploadHistory, dockerfileHistory>>

\* h.historyManager.RecordDockerfileChange: the returned error is dropped
RecordDockerfileChange(name) ==
    \/ dockerfileHistory' = Append(dockerfileHistory, [name |-> name])
    \/ dockerfileHistory' = dockerfileHistory

\* docker.RemoveImage: `docker rmi -f <image>`; when the command fails the
\* tag stays as it is
RemoveImage ==
    \/ image' = FALSE
    \/ image' = image

SetRecord(h) ==
    /\ At(h, "recipe", "record")
    /\ RecordDockerfileChange(reqs[h].id)
    /\ Goto(h, "remove")
    /\ UNCHANGED <<servers, ports, issued, overlap, image, containers, pollCancels, pollers,
                   events, authVars, matchVars, active, built, serverDir, uploadHistory>>

\* docker.RemoveImage(h.imageName) with its result dropped, then 200
SetRemove(h) ==
    /\ At(h, "recipe", "remove")
    /\ RemoveImage
    /\ Respond(h, 200)
    /\ UNCHANGED <<servers, ports, issued, overlap, containers, pollCancels, pollers, events,
                   authVars, matchVars, buildVars>>

SetActiveDockerfile(h) == SetArrive(h) \/ SetRecord(h) \/ SetRemove(h)

\* docker.ImageExists; when the tag is absent docker.BuildImage begins by
\* reading the active recipe (GetActiveDockerfile)
ImageExists(h) ==
    /\ At(h, "start", "image")
    /\ \/ image /\ Goto(h, "run")
       \/ ~image /\ reqs' = [reqs EXCEPT ![h] = [pc |-> "build", recipe |-> active] @@ @]
    /\ UNCHANGED <<servers, ports, issued, overlap, image, containers, pollCancels, pollers,
                   events, authVars, matchVars, buildVars>>

\* docker.BuildImageFromContent: `docker build -t <image>` ends; on success
\* the tag names the image of the recipe that was read
BuildImageFromContent(h) ==
    /\ At(h, "start", "build")
    /\ \/ Goto(h, "run") /\ image' = TRUE /\ built' = reqs[h].recipe
       \/ Fail(h, 500) /\ image' = image /\ built' = built
    /\ UNCHANGED <<servers, ports, issued, overlap, containers, pollCancels, pollers, events,
                   authVars, matchVars, active, serverDir, uploadHistory, dockerfileHistory>>

NextRecipe ==
    \E h \in Handlers :
        \/ SetActiveDockerfile(h)
        \/ StartPort(h) \/ StartName(h) \/ ImageExists(h) \/ BuildImageFromContent(h)
        \/ StartRun(h) \/ StartAdd(h) \/ StartPoll(h) \/ StartRecord(h)

SpecRecipe == InitApi /\ [][NextRecipe]_vars

\* a recipe request has written its recipe and has not answered yet
RecipeSetInFlight ==
    \E g \in Handlers : reqs[g].kind = "recipe" /\ reqs[g].pc \in {"record", "remove"}

\* C21: once every request that set the active recipe has been answered, a
\* start that finds the image tag and goes on to run a container finds the
\* image built from the active recipe: the tag of an older recipe is gone.
StartRunsActiveRecipe ==
    [][\A h \in Handlers :
          (At(h, "start", "image") /\ reqs'[h].pc = "run" /\ ~RecipeSetInFlight)
          => built = active]_vars


\* ------------------------------------------------------------------------
\* Uploads: validation.ZipFileValidator, extractZipToServerDir and
\* api.UploadRelease.  Sizes are counted in MiB.
\* ------------------------------------------------------------------------
\* validation.MaxUploadSize (500 * 1024 * 1024 bytes), in MiB
MaxUploadSize == 500
\* validation.MaxFilesInArchive
MaxFilesInArchive == 10000
\* validation.MaxCompressionRatio
MaxCompressionRatio == 100

\* validation.ValidateFileSize
ValidateFileSize(size) == ~(size > MaxUploadSize)

\* validation.NewZipFileValidator: the counters start at zero; the limits
\* are MaxFiles, MaxTotalSize and MaxRatio
NewZipFileValidator == [TotalFiles |-> 0, TotalSize |-> 0, CompressedSize |-> 0]
MaxFiles == MaxFilesInArchive
MaxTotalSize == MaxUploadSize * MaxCompressionRatio
MaxRatio == MaxCompressionRatio

\* ValidateFileEntry: the counters after the entry, and the verdict
ValidateFileEntry(v, uncompressedSize, compressedSize) ==
    LET w == [TotalFiles |-> v.TotalFiles + 1,
              TotalSize |-> v.TotalSize + uncompressedSize,
              CompressedSize |-> v.CompressedSize + compressedSize]
    IN  [v |-> w,
         Valid |-> IF w.TotalFiles > MaxFiles THEN FALSE
                   ELSE IF w.TotalSize > MaxTotalSize THEN FALSE
                   ELSE IF w.CompressedSize > 0
                        THEN ~(w.TotalSize \div w.CompressedSize > MaxRatio)
                   ELSE TRUE]

\* an entry of an archive's directory: its name as path components, and the
\* sizes its header declares
Entry(name, usize, csize) ==
    [Name |-> name, UncompressedSize64 |-> usize, CompressedSize64 |-> csize]

\* the empty file an archive is padded with
Pad == Entry(<<"p">>, 0, 0)

\* the validator after n entries Pad: each adds one to TotalFiles and
\* passes as long as the count is within MaxFiles
Padded(n) ==
    [v |-> [NewZipFileValidator EXCEPT !.TotalFiles = n], Valid |-> ~(n > MaxFiles)]

RECURSIVE ScanFrom(_, _)
\* the loop over r.File before extraction, from validator v on: all entries pass
ScanFrom(v, entries) ==
    IF entries = <<>> THEN TRUE
    ELSE LET r == ValidateFileEntry(v, entries[1].UncompressedSize64,
                                    entries[1].CompressedSize64)
         IN  r.Valid /\ ScanFrom(r.v, Tail(entries))

\* an archive is ar.pad entries Pad followed by ar.entries
PreScan(ar) == Padded(ar.pad).Valid /\ ScanFrom(Padded(ar.pad).v, ar.entries)

\* server.DefaultServerDir
destDir == <<"game_server">>

RECURSIVE Clean(_, _)
\* filepath.Clean on path components, left to right onto `done`
Clean(done, rest) ==
    IF rest = <<>> THEN done
    ELSE IF rest[1] = "." THEN Clean(done, Tail(rest))
    ELSE IF rest[1] = ".." /\ done # <<>> /\ done[Len(done)] # ".."
         THEN Clean(SubSeq(done, 1, Len(done) - 1), Tail(rest))
    ELSE Clean(Append(done, rest[1]), Tail(rest))

\* filepath.Join(destDir, f.Name)
destPath(f) == Clean(<<>>, destDir \o f.Name)

\* extractFile's guard: strings.HasPrefix(destPath, filepath.Clean(destDir) + "/")
InsideDest(f) ==
    /\ Len(destPath(f)) > Len(destDir)
    /\ SubSeq(destPath(f), 1, Len(destDir)) = destDir

\* the files under destDir once the entries have been extracted into `dir`
Extracted(dir, entries) == dir \cup {Tail(destPath(entries[k])) : k \in 1..Len(entries)}

\* the entries an archive can hold: two plain files, one of ratio 100.5, one
\* whose header declares no compressed bytes, one of more than 50 GiB, and
\* one whose name leaves the staging directory
Entries ==
    { Entry(<<"a">>, 1, 1), Entry(<<"b">>, 201, 2), Entry(<<"c">>, 1024, 0),
      Entry(<<"d">>, 51201, 1024), Entry(<<"..", "x">>, 1, 1) }
\* longest list of entries after the padding
MaxEntries == 2
\* number of uploads the model issues
MaxUploads == 2
Pads == {0, MaxFilesInArchive}
Archives ==
    { [pad |-> n, entries |-> es] :
        n \in Pads, es \in UNION { [1..k -> Entries] : k \in 0..MaxEntries } }

\* every entry of the archive, the padding first
FirstEntries(ar) == (IF ar.pad > 0 THEN <<Pad>> ELSE <<>>) \o ar.entries

\* strings.ToLower, strings.HasSuffix
ToLower(str) ==
    [k \in DOMAIN str |-> IF Ord(str[k]) \in 65..90 THEN Chr(Ord(str[k]) + 32) ELSE str[k]]
HasSuffix(str, suffix) ==
    Len(str) >= Len(suffix) /\ SubSeq(str, Len(str) - Len(suffix) + 1, Len(str)) = suffix

\* file names and sizes (MiB) of the server_build part
FileNames == { <<"B", ".", "Z", "I", "P">>, <<"b", ".", "t", "g", "z">> }
FileSizes == {1, MaxUploadSize + 1}

\* h.historyManager.RecordUpload: an INSERT whose error the handler drops
RecordUpload(filename, success, notes) ==
    \/ uploadHistory' = Append(uploadHistory,
                               [filename |-> filename, success |-> success, notes |-> notes])
    \/ uploadHistory' = uploadHistory

\* the answer of an upload, with the step that failed
Refuse(h, code, step) ==
    reqs' = [reqs EXCEPT ![h].pc = "done", ![h].status = code, ![h].step = step]

\* POST /upload arrives while no other request runs: c.FormFile("server_build"),
\* then ValidateFileSize.  `before` keeps what the upload found.
UploadArrive(h) ==
    /\ \A g \in Handlers : Free(g)
    /\ issued < MaxUploads
    /\ \E present \in BOOLEAN, name \in FileNames, size \in FileSizes :
         LET req == [file |-> name, step |-> "", archive |-> <<>>,
                     before |-> [active |-> active, image |-> image, built |-> built,
                                 serverDir |-> serverDir, rows |-> Len(uploadHistory)]]
                    @@ NewReq("upload", Empty, Empty)
         IN  IF ~present
             THEN /\ RecordUpload(Empty, FALSE, "No file uploaded")
                  /\ Arrive(h, [req EXCEPT !.pc = "done", !.status = 400, !.step = "file"])
             ELSE IF ~ValidateFileSize(size)
             THEN /\ RecordUpload(name, FALSE, "file size exceeds maximum")
                  /\ Arrive(h, [req EXCEPT !.pc = "done", !.status = 400, !.step = "size"])
             ELSE /\ uploadHistory' = uploadHistory
                  /\ Arrive(h, [req EXCEPT !.pc = "recipe"])
    /\ UNCHANGED <<servers, ports, image, containers, pollCancels, pollers, events, authVars,
                   matchVars, active, built, serverDir, dockerfileHistory>>

\* the extension check: strings.HasSuffix(strings.ToLower(file.Filename), ".zip")
UploadExtension(h) ==
    IF HasSuffix(ToLower(reqs[h].file), <<".", "z", "i", "p">>)
    THEN Goto(h, "save") /\ uploadHistory' = uploadHistory
    ELSE /\ RecordUpload(reqs[h].file, FALSE, "File must be a ZIP archive")
         /\ Refuse(h, 400, "extension")

\* the dockerfile and preset fields, then the extension check.  With no
\* such field, an unreadable dockerfile part, or a write that fails, nothing
\* is changed; a valid recipe is written, recorded and the image removed; a
\* recipe or preset name that fails validation is answered 400.
UploadRecipe(h) ==
    /\ At(h, "upload", "recipe")
    /\ \/ /\ UNCHANGED <<active, dockerfileHistory, image>>
          /\ UploadExtension(h)
       \/ /\ active' = reqs[h].id
          /\ RecordDockerfileChange(reqs[h].id)
          /\ RemoveImage
          /\ UploadExtension(h)
       \/ /\ UNCHANGED <<active, dockerfileHistory, image, uploadHistory>>
          /\ Refuse(h, 400, "recipe")
    /\ UNCHANGED <<servers, ports, issued, overlap, containers, pollCancels, pollers, events,
                   authVars, matchVars, built, serverDir>>

\* os.CreateTemp, file.Open, io.Copy: each can fail
UploadSave(h) ==
    /\ At(h, "upload", "save")
    /\ \/ Goto(h, "extract") /\ uploadHistory' = uploadHistory
       \/ /\ \E notes \in {"Failed to create temp file", "Failed to open uploaded file",
                           "Failed to save uploaded file"} :
                RecordUpload(reqs[h].file, FALSE, notes)
          /\ Refuse(h, 500, "save")
    /\ UNCHANGED <<servers, ports, issued, overlap, image, containers, pollCancels, pollers,
                   events, authVars, matchVars, active, built, serverDir, dockerfileHistory>>

\* what a failed sweep of destDir leaves: os.RemoveAll fails at some entry
\* of os.ReadDir's listing, which is sorted by name
Leftovers(dir) ==
    { keep \in SUBSET dir :
        /\ keep # {}
        /\ \A x \in keep, y \in dir : Ord(x[1]) < Ord(y[1]) => y \in keep }

\* extractZipToServerDir fails: the step, and the directory it leaves.  The
\* archive cannot be opened; the scan refuses an entry; the directory cannot
\* be made or read, or not swept entirely; extractFile refuses the first
\* entry that leaves destDir or fails on any entry, before or after it has
\* created the entry's file.
ExtractFailures(ar) ==
    IF ~PreScan(ar) THEN {[step |-> "open", dir |-> serverDir], [step |-> "prescan", dir |-> serverDir]}
    ELSE {[step |-> "open", dir |-> serverDir], [step |-> "clear", dir |-> serverDir]}
         \cup {[step |-> "clear", dir |-> keep] : keep \in Leftovers(serverDir)}
         \cup UNION { {[step |-> "extract", dir |-> Extracted({}, SubSeq(FirstEntries(ar), 1, k - 1))]}
                      \cup (IF InsideDest(FirstEntries(ar)[k])
                            THEN {[step |-> "extract",
                                   dir |-> Extracted({}, SubSeq(FirstEntries(ar), 1, k))]}
                            ELSE {}) :
                      k \in {j \in 1..Len(FirstEntries(ar)) :
                               \A m \in 1..(j - 1) : InsideDest(FirstEntries(ar)[m])} }

\* extractZipToServerDir succeeds: every entry passes the scan and stays in destDir
ExtractSucceeds(ar) ==
    PreScan(ar) /\ \A k \in 1..Len(FirstEntries(ar)) : InsideDest(FirstEntries(ar)[k])

\* extractZipToServerDir(tempFilePath, server.DefaultServerDir)
UploadExtract(h) ==
    /\ At(h, "upload", "extract")
    /\ \E ar \in Archives :
         \/ /\ ExtractSucceeds(ar)
            /\ serverDir' = Extracted({}, FirstEntries(ar))
            /\ uploadHistory' = uploadHistory
            /\ reqs' = [reqs EXCEPT ![h].pc = "build", ![h].archive = ar]
         \/ \E f \in ExtractFailures(ar) :
              /\ serverDir' = f.dir
              /\ RecordUpload(reqs[h].file, FALSE, "Failed to extract ZIP file")
              /\ reqs' = [reqs EXCEPT ![h].pc = "done", ![h].status = 500,
                                      ![h].step = f.step, ![h].archive = ar]
    /\ UNCHANGED <<servers, ports, issued, overlap, image, containers, pollCancels, pollers,
                   events, authVars, matchVars, active, built, dockerfileHistory>>

\* docker.BuildImage(docker.DefaultImageName), then the record and the answer
UploadBuild(h) ==
    /\ At(h, "upload", "build")
    /\ \/ /\ image' = TRUE /\ built' = active
          /\ RecordUpload(reqs[h].file, TRUE, "Upload and Docker rebuild successful")
          /\ Respond(h, 200)
       \/ /\ image' = image /\ built' = built
          /\ RecordUpload(reqs[h].file, FALSE, "Failed to rebuild Docker image")
          /\ Refuse(h, 500, "build")
    /\ UNCHANGED <<servers, ports, issued, overlap, containers, pollCancels, pollers, events,
                   authVars, matchVars, active, serverDir, dockerfileHistory>>

UploadRelease(h) ==
    \/ UploadArrive(h) \/ UploadRecipe(h) \/ UploadSave(h) \/ UploadExtract(h)
    \/ UploadBuild(h)

NextUpload == \E h \in Handlers : UploadRelease(h)

SpecUpload == InitApi /\ [][NextUpload]_vars

\* an upload that has been answered with a failure
UploadFailed(h) == reqs[h].kind = "upload" /\ reqs[h].pc = "done" /\ reqs[h].status # 200

\* C22: an upload that fails leaves the active recipe and the image tag, with
\* the recipe it was built from, as the upload found them.
FailedUploadKeepsRecipe ==
    \A h \in Handlers :
        UploadFailed(h) => /\ active = reqs[h].before.active
                           /\ image = reqs[h].before.image
                           /\ built = reqs[h].before.built


\* C23: after a failed upload the staging directory holds what it held
\* before the upload, or nothing; after a refusal by the scan it holds what
\* it held before.
FailedUploadKeepsStaging ==
    \A h \in Handlers :
        UploadFailed(h) =>
            /\ serverDir = reqs[h].before.serverDir \/ serverDir = {}
            /\ reqs[h].step = "prescan" => serverDir = reqs[h].before.serverDir

\* C24: an upload whose archive the scan refuses is answered 400.
ScanRefusalAnswered400 ==
    \A h \in Handlers :
        (UploadFailed(h) /\ reqs[h].step = "prescan") => reqs[h].status = 400

\* C25: a failed upload has appended one row to upload_history, with
\* success false and the reason in its notes.
FailedUploadRecorded ==
    \A h \in Handlers :
        UploadFailed(h) =>
            /\ Len(uploadHistory) = reqs[h].before.rows + 1
            /\ ~uploadHistory[Len(uploadHistory)].success
            /\ uploadHistory[Len(uploadHistory)].notes # ""

RECURSIVE SumUncompressed(_)
SumUncompressed(entries) ==
    IF entries = <<>> THEN 0
    ELSE entries[1].UncompressedSize64 + SumUncompressed(Tail(entries))
RECURSIVE SumCompressed(_)
SumCompressed(entries) ==
    IF entries = <<>> THEN 0
    ELSE entries[1].CompressedSize64 + SumCompressed(Tail(entries))

\* the archive has more than 10 000 entries, or declares more than 50 GiB,
\* or more than 100 times its compressed size
OverBound(ar) ==
    \/ ar.pad + Len(ar.entries) > 10000
    \/ SumUncompressed(ar.entries) > 50 * 1024
    \/ SumUncompressed(ar.entries) > 100 * SumCompressed(ar.entries)

\* C26: an archive over one of the three bounds that reaches the scan is
\* refused by it, and the staging directory is left as it was.
ScanRefusesOverBound ==
    \A h \in Handlers :
        ( /\ reqs[h].kind = "upload" /\ reqs[h].archive # <<>>
          /\ OverBound(reqs[h].archive) /\ reqs[h].step # "open" )
        => /\ reqs[h].step = "prescan"
           /\ serverDir = reqs[h].before.serverDir


\* ------------------------------------------------------------------------
\* The router of SetupRouter: every request runs the chain gin composes for
\* its route, the engine's middlewares first.
\* ------------------------------------------------------------------------
\* the headers SecurityHeadersMiddleware sets
SecurityHeaders ==
    {"X-Frame-Options", "X-Content-Type-Options", "X-XSS-Protection", "Referrer-Policy",
     "Content-Security-Policy", "Permissions-Policy"}

\* the middlewares of the engine without the security headers
EngineHandlersBare == <<"Logger", "Recovery">>
\* r.Use(gin.Logger()), r.Use(gin.Recovery()), r.Use(security.SecurityHeadersMiddleware())
EngineHandlers == <<"Logger", "Recovery", "SecurityHeadersMiddleware">>

\* requests the router is sent: the health check, a route of the /api/v1
\* group without and one with CSRF protection, and a path with no route
Targets ==
    { [method |-> "GET", path |-> "/health"],
      [method |-> "GET", path |-> "/api/v1/csrf-token"],
      [method |-> "POST", path |-> "/api/v1/upload"],
      [method |-> "GET", path |-> "/nowhere"] }

\* the chain of a route: the engine's middlewares, those of its groups, the
\* handler; a request that matches no route runs the engine's middlewares
\* and is answered 404
HandlersChain(t) ==
    IF t.path = "/health" THEN EngineHandlers \o <<"handler">>
    ELSE IF t.path = "/api/v1/csrf-token"
         THEN EngineHandlers \o <<"AuthMiddleware", "handler">>
    ELSE IF t.path = "/api/v1/upload"
         THEN EngineHandlers \o <<"AuthMiddleware", "CSRFMiddleware", "handler">>
    ELSE EngineHandlers \o <<"NoRoute">>

\* the request is handed to the router: c.handlers is the route's chain and
\* the response has no header yet
RouterArrive(h) ==
    /\ \E t \in Targets, a \in {Empty, Bearer \o Space \o Key1} :
       \E token \in IF t.method = "POST" THEN 0..NumReqs ELSE {0} :
         Arrive(h, [target |-> t, authz |-> a, tok |-> token, handlers |-> HandlersChain(t),
                    header |-> {}] @@ [NewReq("route", Empty, Empty) EXCEPT !.pc = "chain"])
    /\ UNCHANGED <<servers, ports, image, containers, pollCancels, pollers, events, authVars,
                   matchVars, buildVars>>

Running(h, handler) ==
    /\ At(h, "route", "chain")
    /\ reqs[h].handlers # <<>> /\ Head(reqs[h].handlers) = handler

\* c.Next(): the rest of the chain
RouterNext(h) == reqs' = [reqs EXCEPT ![h].handlers = Tail(@)]
\* the response is written and the chain ends (c.Abort, or the last handler)
RouterAnswer(h, code) ==
    reqs' = [reqs EXCEPT ![h].pc = "done", ![h].status = code, ![h].handlers = <<>>]

\* gin.Logger and gin.Recovery pass the request on
RouterPass(h) ==
    /\ Running(h, "Logger") \/ Running(h, "Recovery")
    /\ RouterNext(h)
    /\ UNCHANGED <<servers, ports, issued, overlap, image, containers, pollCancels, pollers,
                   events, authVars, matchVars, buildVars>>

\* security.SecurityHeadersMiddleware: six c.Header calls, then c.Next()
SecurityHeadersMiddleware(h) ==
    /\ Running(h, "SecurityHeadersMiddleware")
    /\ reqs' = [reqs EXCEPT ![h].handlers = Tail(@), ![h].header = @ \cup SecurityHeaders]
    /\ UNCHANGED <<servers, ports, issued, overlap, image, containers, pollCancels, pollers,
                   events, authVars, matchVars, buildVars>>

\* security.AuthMiddleware(h.apiKey): 401 and c.Abort(), or c.Next()
RouterAuth(h) ==
    /\ Running(h, "AuthMiddleware")
    /\ IF AuthMiddleware(reqs[h].authz, apiKey) THEN RouterNext(h) ELSE RouterAnswer(h, 401)
    /\ UNCHANGED <<servers, ports, issued, overlap, image, containers, pollCancels, pollers,
                   events, authVars, matchVars, buildVars>>

\* security.CSRFMiddleware: 403 and c.Abort() for a missing or unknown
\* token, else the token is spent and the request passes
RouterCSRF(h) ==
    /\ Running(h, "CSRFMiddleware")
    /\ IF CSRFChecked(reqs[h].target.method) /\ (reqs[h].tok = 0 \/ ~ValidateToken(reqs[h].tok))
       THEN RouterAnswer(h, 403) /\ csrfTokens' = csrfTokens
       ELSE RouterNext(h) /\ InvalidateToken(reqs[h].tok)
    /\ UNCHANGED <<servers, ports, issued, overlap, image, containers, pollCancels, pollers,
                   events, apiKey, accepts, sessions, hist, now, ticks, matchVars, buildVars>>

\* the route's handler answers; GetCSRFToken mints a token
RouterHandler(h) ==
    /\ Running(h, "handler")
    /\ IF reqs[h].target.path = "/api/v1/csrf-token"
       THEN GenerateToken(reqs[h].id) ELSE csrfTokens' = csrfTokens
    /\ \E code \in {200, 500} : RouterAnswer(h, code)
    /\ UNCHANGED <<servers, ports, issued, overlap, image, containers, pollCancels, pollers,
                   events, apiKey, accepts, sessions, hist, now, ticks, matchVars, buildVars>>

\* no route matched: the engine's middlewares have run, 404
RouterNoRoute(h) ==
    /\ Running(h, "NoRoute")
    /\ RouterAnswer(h, 404)
    /\ UNCHANGED <<servers, ports, issued, overlap, image, containers, pollCancels, pollers,
                   events, authVars, matchVars, buildVars>>

NextRouter ==
    \E h \in Handlers :
        \/ RouterArrive(h) \/ RouterPass(h) \/ SecurityHeadersMiddleware(h) \/ RouterAuth(h)
        \/ RouterCSRF(h) \/ RouterHandler(h) \/ RouterNoRoute(h)

SpecRouter == InitAuth /\ [][NextRouter]_vars

\* the five headers the router's responses have to carry
RequiredHeaders ==
    {"Content-Security-Policy", "X-Frame-Options", "X-Content-Type-Options",
     "Referrer-Policy", "Permissions-Policy"}

MaxCommandLen == 256
MaxArgLen == 1024
MaxArgs == 50

\* the grave accent, written by name
Grave == "grave"

\* the class of dangerousCharsRegex
DangerousChars ==
    {";", "&", "|", "$", Grave, "\\", "<", ">", "(", ")", "{", "}", "[", "]",
     "!", "#", "*", "?", "~"}

\* strings.Contains
Contains(str, sub) == \E k \in 1..Len(str) : HasPrefixAt(str, k, sub)
\* strings.ContainsAny
ContainsAny(str, chars) == \E k \in 1..Len(str) : str[k] \in chars

\* validation.ValidateCommand: the result is valid
ValidateCommand(cmd) ==
    IF cmd = Empty THEN TRUE
    ELSE IF Len(cmd) > MaxCommandLen THEN FALSE
    ELSE IF ContainsAny(cmd, DangerousChars) THEN FALSE
    ELSE IF Contains(cmd, <<".", ".">>) THEN FALSE
    ELSE TRUE

\* the validation of arguments that looks at their number only
ValidateArgsCounted(args) == ~(Len(args) > MaxArgs)

\* validation.ValidateArgs: the result is valid
ValidateArgs(args) ==
    IF Len(args) = 0 THEN TRUE
    ELSE IF Len(args) > MaxArgs THEN FALSE
    ELSE \A k \in 1..Len(args) :
            /\ ~(Len(args[k]) > MaxArgLen)
            /\ ~ContainsAny(args[k], {";", "&", "|", Grave, "\\"})

\* the characters of the strings validated: the shell metacharacters, the
\* backslash, and four harmless ones
Chars == DangerousChars \cup {"a", ".", "/", "-"}
\* longest string composed freely
MaxStr == 2
Strings == UNION { [1..k -> Chars] : k \in 0..MaxStr }
Repeat(x, n) == [k \in 1..n |-> x]

\* commands: every short string, and two at the length limit
Commands == Strings \cup {Repeat("a", MaxCommandLen), Repeat("a", MaxCommandLen + 1)}
\* argument lists: one short string alone or after another argument, lists
\* at the limit of items, an argument at the limit of its length
ArgLists ==
    {<<>>} \cup {<<str>> : str \in Strings} \cup {<<<<"a">>, str>> : str \in Strings}
    \cup {Repeat(<<"a">>, MaxArgs), Repeat(<<"a">>, MaxArgs + 1),
          Append(Repeat(<<"a">>, MaxArgs), <<";">>)}
    \cup {<<Repeat("a", MaxArgLen)>>, <<Repeat("a", MaxArgLen + 1)>>}

NoCheck == [call |-> "none", cmd |-> Empty, args |-> <<>>, valid |-> TRUE]

InitValidation ==
    /\ NewStateHandler
    /\ reqs = NoCheck
    /\ issued = 0
    /\ overlap = FALSE
    /\ image = FALSE
    /\ containers = {}
    /\ pollCancels = <<>>
    /\ pollers = <<>>
    /\ events = <<>>
    /\ NoSecurity
    /\ NoBuild
    /\ NoMatch

\* one call is made, with any of the inputs
CallValidateCommand ==
    /\ reqs = NoCheck
    /\ \E cmd \in Commands :
         reqs' = [call |-> "command", cmd |-> cmd, args |-> <<>>, valid |-> ValidateCommand(cmd)]
    /\ UNCHANGED <<stateVars, issued, overlap, image, containers, pollCancels, pollers, events,
                   authVars, matchVars, buildVars>>

CallValidateArgs ==
    /\ reqs = NoCheck
    /\ \E args \in ArgLists :
         reqs' = [call |-> "args", cmd |-> Empty, args |-> args, valid |-> ValidateArgs(args)]
    /\ UNCHANGED <<stateVars, issued, overlap, image, containers, pollCancels, pollers, events,
                   authVars, matchVars, buildVars>>

NextValidation == CallValidateCommand \/ CallValidateArgs

SpecValidation == InitValidation /\ [][NextValidation]_vars

\* the shell metacharacters ; & | $ (grave) ( ) { } [ ] ! # * ? ~ < >
ShellMeta ==
    {";", "&", "|", "$", Grave, "(", ")", "{", "}", "[", "]", "!", "#", "*", "?", "~",
     "<", ">"}

\* the string holds a shell metacharacter or the sequence ".."
Unsafe(str) == ContainsAny(str, ShellMeta) \/ Contains(str, <<".", ".">>)

\* C28 as stated: a command, and a list with an argument, that holds a shell
\* metacharacter or ".." is rejected, and so is a list of more than 50
\* arguments.
UnsafeStringsRejected ==
    /\ (reqs.call = "command" /\ Unsafe(reqs.cmd)) => ~reqs.valid
    /\ (reqs.call = "args" /\ \E k \in 1..Len(reqs.args) : Unsafe(reqs.args[k])) => ~reqs.valid
    /\ (reqs.call = "args" /\ Len(reqs.args) > 50) => ~reqs.valid

\* C28: a command that holds a shell metacharacter or ".." is rejected; a
\* list with an argument that holds one of ; & | (grave) is rejected, and so
\* is a list of more than 50 arguments.
UnsafeCommandsAndArgsRejected ==
    /\ (reqs.call = "command" /\ Unsafe(reqs.cmd)) => ~reqs.valid
    /\ (reqs.call = "args"
        /\ \E k \in 1..Len(reqs.args) : ContainsAny(reqs.args[k], {";", "&", "|", Grave}))
       => ~reqs.valid
    /\ (reqs.call = "args" /\ Len(reqs.args) > 50) => ~reqs.valid

\* a list whose second argument holds a grave accent has been rejected
GraveArgumentRejected ==
    /\ reqs.call = "args" /\ Len(reqs.args) = 2
    /\ ContainsAny(reqs.args[2], {Grave}) /\ ~reqs.valid


\* ------------------------------------------------------------------------
\* The pollers beside the registry
\* ------------------------------------------------------------------------
\* the StartPolling goroutines of a name whose context is not cancelled
PollersOf(name) == {c \in DOMAIN pollers : pollers[c].name = name /\ ~pollers[c].cancelled}

\* C29: while no start or stop is being served, h.pollCancels has an entry
\* for exactly the registered names, the entry of a name is the context of
\* a poller of that name, and no name has two pollers.
PollerTableMatchesFleet ==
    (\A h \in Handlers : Free(h))
    => /\ DOMAIN pollCancels = DOMAIN servers
       /\ \A n \in DOMAIN pollCancels : pollCancels[n] \in PollersOf(n)
       /\ \A n \in Names : Cardinality(PollersOf(n)) <= 1


\* docker.StartPolling, a tick in two steps: the status is fetched
\* (PollContainerStatus), then handed to updateFn.  `report` marks a poller
\* that holds a fetched status; the status itself is drawn where it is used.
InFlight(c) == "report" \in DOMAIN pollers[c]

\* case <-ticker.C: PollContainerStatus answers for a running container (an
\* error skips the tick)
PollTick(c) ==
    /\ c \in DOMAIN pollers /\ ~InFlight(c) /\ ~pollers[c].cancelled
    /\ pollers[c].name \in containers
    /\ pollers' = [pollers EXCEPT ![c] = [report |-> TRUE] @@ @]
    /\ UNCHANGED <<servers, ports, reqs, issued, overlap, image, containers, pollCancels,
                   events, authVars, matchVars, buildVars>>

\* updateFn(pc, mp): h.stateManager.UpdateServerStatus(containerName, ...)
PollUpdate(c) ==
    /\ c \in DOMAIN pollers /\ InFlight(c)
    /\ \E report \in AgentReports :
         UpdateServerStatus(pollers[c].name, report[1], report[2])
    /\ pollers' = [pollers EXCEPT
                     ![c] = [name |-> pollers[c].name, cancelled |-> pollers[c].cancelled]]
    /\ UNCHANGED <<reqs, issued, overlap, image, containers, pollCancels, events, authVars,
                   match, jt, buildVars>>

\* case <-ctx.Done(): return
PollReturn(c) == c \in DOMAIN pollers /\ ~InFlight(c) /\ PollerExit(c)

NextPoll ==
    \/ \E h \in Handlers : StartServer(h) \/ StopServer(h)
    \/ \E c \in 1..NumReqs : PollTick(c) \/ PollUpdate(c) \/ PollReturn(c)

SpecPoll == InitApi /\ [][NextPoll]_vars

\* the stop that cancelled the poller of `name` has yet to remove the instance
StopRemoving(name) == \E h \in Handlers : At(h, "stop", "remove") /\ reqs[h].name = name

\* C30: once a stop has cancelled a poller and removed its instance, the
\* update of a tick that poller had in flight changes nothing in the
\* registry.
StaleTickChangesNothing ==
    [][\A c \in DOMAIN pollers :
          ( /\ InFlight(c) /\ pollers[c].cancelled /\ ~StopRemoving(pollers[c].name)
            /\ c \in DOMAIN pollers' /\ ~("report" \in DOMAIN pollers'[c]) )
          => UNCHANGED <<servers, ports, maxPlayers>>]_vars

\* ------------------------------------------------------------------------
\* history: the order of the server_events rows
\* ------------------------------------------------------------------------
\* C31: every stop event in the event log comes after a start event for the
\* same name, whatever the interleaving of start and stop requests.
StartLoggedBeforeStop ==
    \A j \in DOMAIN events :
       events[j].type = "stop" =>
         \E i \in 1..(j - 1) : events[i].type = "start" /\ events[i].name = events[j].name

\* a start event for `name` is in the event log
StartLogged(name) == \E i \in DOMAIN events : events[i].type = "start" /\ events[i].name = name

\* C32: a stop that has stopped its container writes its stop event if and
\* only if a start event for the same name is already in the event log.
StopEventIffStartLogged ==
    [][\A h \in Handlers :
          (At(h, "stop", "record") /\ reqs'[h].pc = "cancel")
          => ((events' # events) <=> StartLogged(reqs[h].name))]_vars

\* ------------------------------------------------------------------------
\* docker.StartPolling against the clock (seconds).  A poller carries
\*   phase    where the goroutine stands: select, inspect, http, update
\*   pending  a tick waits in ticker.C
\*   idle     time since the ticker fired last
\*   spent    time the HTTP call has taken so far
\*   waited   time since the poller's context was cancelled
\* ------------------------------------------------------------------------
statusPollInterval == 30
statusPollTimeout == 5

TimedPoller(name) ==
    [name |-> name, cancelled |-> FALSE, phase |-> "select", pending |-> FALSE,
     idle |-> 0, spent |-> 0, waited |-> 0]

\* the fleet after one successful start, its poller waiting in the select
InitPolled ==
    /\ servers = (FirstName :> ServerInfo(FirstName, Itoa(DefaultPort), 0, 0))
    /\ ports = {Itoa(DefaultPort)}
    /\ reqs = [h \in Handlers |-> Idle]
    /\ issued = 0
    /\ overlap = FALSE
    /\ image = TRUE
    /\ containers = {FirstName}
    /\ pollCancels = (FirstName :> 0)
    /\ pollers = (0 :> TimedPoller(FirstName))
    /\ events = <<[type |-> "start", name |-> FirstName, port |-> Itoa(DefaultPort)]>>
    /\ NoSecurity
    /\ NoMatch
    /\ NoBuild

InPhase(c, phase) == c \in DOMAIN pollers /\ pollers[c].phase = phase

PollerVars == <<servers, ports, reqs, issued, overlap, image, containers, pollCancels, events,
                authVars, matchVars, buildVars>>

\* the select of the loop: <-ctx.Done() returns, <-ticker.C begins a tick; the
\* runtime picks either when both are ready
StartPollingSelect(c) ==
    /\ InPhase(c, "select")
    /\ \/ /\ pollers[c].cancelled
          /\ pollers' = [d \in DOMAIN pollers \ {c} |-> pollers[d]]
       \/ /\ pollers[c].pending
          /\ pollers' = [pollers EXCEPT ![c].phase = "inspect", ![c].pending = FALSE]
    /\ UNCHANGED PollerVars

\* GetContainerIP: `docker inspect` run through exec.Command, which sets no
\* deadline; it answers with the bridge address of a running container or
\* with an error
GetContainerIP(c) ==
    /\ InPhase(c, "inspect")
    /\ \/ /\ pollers[c].name \in containers
          /\ pollers' = [pollers EXCEPT ![c].phase = "http", ![c].spent = 0]
       \/ pollers' = [pollers EXCEPT ![c].phase = "select"]
    /\ UNCHANGED PollerVars

\* PollContainerStatus after the address is known: client.Get under
\* http.Client{Timeout: statusPollTimeout}; a status is decoded or the call
\* ends in an error
PollContainerStatus(c) ==
    /\ InPhase(c, "http")
    /\ \/ /\ pollers[c].name \in containers
          /\ pollers' = [pollers EXCEPT ![c].phase = "update"]
       \/ pollers' = [pollers EXCEPT ![c].phase = "select"]
    /\ UNCHANGED PollerVars

\* updateFn(pc, mp)
updateFn(c) ==
    /\ InPhase(c, "update")
    /\ \E report \in AgentReports :
         UpdateServerStatus(pollers[c].name, report[1], report[2])
    /\ pollers' = [pollers EXCEPT ![c].phase = "select"]
    /\ UNCHANGED <<reqs, issued, overlap, image, containers, pollCancels, events, authVars,
                   match, jt, buildVars>>

StartPolling(c) ==
    StartPollingSelect(c) \/ GetContainerIP(c) \/ PollContainerStatus(c) \/ updateFn(c)

\* d seconds pass.  A goroutine that can run does so first (a ready select,
\* the call of updateFn); the HTTP call never outlasts its timeout; nothing
\* bounds the time `docker inspect` takes.
Elapse(d) ==
    /\ ticks < MaxTicks
    /\ \A c \in DOMAIN pollers :
         /\ pollers[c].phase # "update"
         /\ pollers[c].phase = "select" => ~pollers[c].cancelled /\ ~pollers[c].pending
         /\ pollers[c].phase = "http" => pollers[c].spent + d <= statusPollTimeout
    /\ now' = now + d
    /\ ticks' = ticks + 1
    /\ pollers' = [c \in DOMAIN pollers |->
                     [pollers[c] EXCEPT
                        !.idle = (@ + d) % statusPollInterval,
                        !.pending = @ \/ (pollers[c].idle + d >= statusPollInterval),
                        !.spent = IF pollers[c].phase = "http" THEN @ + d ELSE @,
                        !.waited = IF pollers[c].cancelled THEN @ + d ELSE @]]
    /\ UNCHANGED <<servers, ports, reqs, issued, overlap, image, containers, pollCancels,
                   events, apiKey, csrfTokens, accepts, sessions, hist, matchVars, buildVars>>

NextCancel ==
    \/ \E h \in Handlers : StopServer(h)
    \/ \E c \in 0..NumReqs : StartPolling(c)
    \/ \E d \in {1, statusPollTimeout, statusPollInterval} : Elapse(d)

SpecCancel == InitPolled /\ [][NextCancel]_vars

\* C33: a cancelled poller returns within one network timeout of the
\* cancellation, with as much again allowed for the steps around the HTTP
\* call.
CancelledPollerReturnsInTime ==
    \A c \in DOMAIN pollers :
       pollers[c].cancelled => pollers[c].waited <= 2 * statusPollTimeout

\* ------------------------------------------------------------------------
\* state.StateHandler seen by a reader.  h.servers maps a name to a
\* *ServerInfo; ListServers and GetServer hand out those pointers.  `reqs` is
\* the reader's last call:
\*   returned  per name, the fields of the instance when the call returned
\*   detached  per name whose object the map no longer points to, the fields
\*             the object was left with
\* A pointer whose object is still in the map reads the map's object.
\* ------------------------------------------------------------------------
NoRead == [call |-> "none", returned |-> <<>>, detached |-> <<>>]

InitReader ==
    /\ NewStateHandler
    /\ reqs = NoRead
    /\ issued = 0
    /\ overlap = FALSE
    /\ image = FALSE
    /\ containers = {}
    /\ pollCancels = <<>>
    /\ pollers = <<>>
    /\ events = <<>>
    /\ NoSecurity
    /\ NoBuild
    /\ NoMatch

\* what the reader finds behind the pointer it holds for `name`
Deref(name) ==
    IF name \in DOMAIN reqs.detached THEN reqs.detached[name] ELSE servers[name]

\* the map entry of `name` goes away or is replaced: a pointer the reader
\* holds keeps the object as it is now
Unlink(name) ==
    reqs' = IF name \in DOMAIN reqs.returned /\ name \notin DOMAIN reqs.detached
            THEN [reqs EXCEPT !.detached = (name :> servers[name]) @@ @]
            ELSE reqs

ReaderVars == <<issued, overlap, image, containers, pollCancels, pollers, events,
                authVars, matchVars, buildVars>>

\* servers = append(servers, server) for every entry of the map
ReadListServers ==
    /\ reqs' = [call |-> "list", returned |-> servers, detached |-> <<>>]
    /\ UNCHANGED <<servers, ports, ReaderVars>>

\* return server, nil when the name is registered
ReadGetServer ==
    /\ \E n \in DOMAIN servers :
         reqs' = [call |-> "get", returned |-> (n :> servers[n]), detached |-> <<>>]
    /\ UNCHANGED <<servers, ports, ReaderVars>>

ReaderAddServer ==
    /\ \E n \in Names, p \in StatePorts : AddServer(ServerInfo(n, p, 0, 0)) /\ Unlink(n)
    /\ UNCHANGED ReaderVars

ReaderRemoveServer ==
    /\ \E n \in Names : RemoveServer(n) /\ Unlink(n)
    /\ UNCHANGED ReaderVars

\* server.PlayerCount = count, written into the object the map points to
ReaderUpdatePlayerCount ==
    /\ \E n \in Names, c \in 0..MaxCount : UpdatePlayerCount(n, c)
    /\ UNCHANGED <<reqs, ReaderVars>>

NextReader ==
    \/ ReadListServers \/ ReadGetServer
    \/ ReaderAddServer \/ ReaderRemoveServer \/ ReaderUpdatePlayerCount

SpecReader == InitReader /\ [][NextReader]_vars

\* C34: what a reader got from ListServers or GetServer stays as it was
\* returned, whatever the registry does afterwards.
ReaderKeepsWhatWasReturned ==
    \A n \in DOMAIN reqs.returned : Deref(n) = reqs.returned[n]

\* ------------------------------------------------------------------------
\* the life of a name: starts, stops, heartbeats and poller updates together
\* ------------------------------------------------------------------------
NextLife == Next \/ DoUpdatePlayerCount \/ PollerUpdate

SpecLife == InitApi /\ [][NextLife]_vars

\* a stop of `name` has been answered 200
Destroyed(name) ==
    \E h \in Handlers : At(h, "stop", "done") /\ reqs[h].status = 200 /\ reqs[h].name = name

\* C35 as stated: a name a stop has destroyed is never made live again.
NeverLiveAgain ==
    [][\A n \in Names : Destroyed(n) /\ n \notin DOMAIN servers => n \notin DOMAIN servers']_vars

\* C35: a name that is not live becomes live only through the AddServer of a
\* start that generated that name; no other operation registers it.
OnlyStartMakesLive ==
    [][\A n \in Names :
          (n \notin DOMAIN servers /\ n \in DOMAIN servers')
          => \E h \in Handlers :
               At(h, "start", "add") /\ reqs[h].name = n /\ reqs'[h].pc = "poll"]_vars

\* a start has registered a name that a stop destroyed before
DestroyedNameLiveAgain ==
    \E h \in Handlers :
       /\ At(h, "start", "poll")
       /\ Destroyed(reqs[h].name)
       /\ reqs[h].name \in DOMAIN servers

\* ------------------------------------------------------------------------
\* the name loop of StartServer
\* ------------------------------------------------------------------------
\* a start gives up after maxRetries colliding names, answering 500 with
\* nothing run and nothing registered
NameLoopBounded ==
    [][\A h \in Handlers :
          /\ reqs'[h].i < maxRetries
          /\ (At(h, "start", "name") /\ reqs'[h].pc = "done")
             => /\ reqs[h].i = maxRetries - 1
                /\ reqs'[h].status = 500
                /\ UNCHANGED <<servers, ports, containers, pollCancels, pollers, events>>]_vars

\* C36: a start draws at most maxRetries names, registers its instance only
\* under a name no live instance holds, and after maxRetries collisions
\* answers 500 without running a container or changing the fleet.
StartNameFree ==
    [][\A h \in Handlers :
          /\ reqs'[h].i < maxRetries
          /\ (At(h, "start", "add") /\ reqs'[h].pc = "poll")
             => reqs[h].name \notin DOMAIN servers
          /\ (At(h, "start", "name") /\ reqs'[h].pc = "done")
             => /\ reqs[h].i = maxRetries - 1
                /\ reqs'[h].status = 500
                /\ UNCHANGED <<servers, ports, containers, pollCancels, pollers, events>>]_vars

\* ------------------------------------------------------------------------
\* client.Client against the CSRF middleware.  Each handler index stands for
\* one Client instance (the matchmaker's, the CLI's); `reqs` holds per client
\*   csrfToken  the token the client keeps ("" until it has fetched one)
\*   pc         idle, or send: a state-changing request is on its way
\*   kind       the call in hand: start or stop
\*   status     the status of the last response (0: none yet)
\*   calls      state-changing calls this client has had answered
\* ------------------------------------------------------------------------
NewClient == [csrfToken |-> "", pc |-> "idle", kind |-> "none", status |-> 0, calls |-> 0]

InitClient ==
    /\ NewStateHandler
    /\ reqs = [c \in Handlers |-> NewClient]
    /\ issued = 0
    /\ overlap = FALSE
    /\ image = FALSE
    /\ containers = {}
    /\ pollCancels = <<>>
    /\ pollers = <<>>
    /\ events = <<>>
    /\ NoSecurity
    /\ NoBuild
    /\ NoMatch

ClientVars == <<servers, ports, overlap, image, containers, pollCancels, pollers, events,
                apiKey, sessions, hist, now, ticks, matchVars, buildVars>>

\* the token GenerateToken mints next: 32 random bytes, never seen before
FreshToken == ToString(Cardinality(DOMAIN accepts) + 1)

\* Client.StartServer / Client.StopServer up to httpClient.Do: addCSRFHeader
\* fetches a token from GET /api/v1/csrf-token only while c.csrfToken is
\* empty (a failed fetch returns the error and sends nothing), then sets the
\* X-CSRF-Token header from c.csrfToken
addCSRFHeader(c) ==
    /\ reqs[c].pc = "idle" /\ issued < NumReqs
    /\ issued' = issued + 1
    /\ \E kind \in {"start", "stop"} :
         IF reqs[c].csrfToken = ""
         THEN \/ /\ GenerateToken(FreshToken)
                 /\ accepts' = (FreshToken :> 0) @@ accepts
                 /\ reqs' = [reqs EXCEPT ![c].csrfToken = FreshToken, ![c].pc = "send",
                                         ![c].kind = kind]
              \/ /\ UNCHANGED <<csrfTokens, accepts>>
                 /\ reqs' = [reqs EXCEPT ![c].kind = kind, ![c].status = 0]
         ELSE /\ UNCHANGED <<csrfTokens, accepts>>
              /\ reqs' = [reqs EXCEPT ![c].pc = "send", ![c].kind = kind]
    /\ UNCHANGED ClientVars

\* the request reaches CSRFMiddleware: 403 for a token the manager does not
\* hold; otherwise the token is invalidated and the handler answers
ClientDo(c) ==
    /\ reqs[c].pc = "send"
    /\ IF reqs[c].csrfToken = "" \/ ~ValidateToken(reqs[c].csrfToken)
       THEN /\ reqs' = [reqs EXCEPT ![c].pc = "idle", ![c].status = 403, ![c].calls = @ + 1]
            /\ UNCHANGED <<csrfTokens, accepts>>
       ELSE /\ InvalidateToken(reqs[c].csrfToken)
            /\ accepts' = [accepts EXCEPT ![reqs[c].csrfToken] = @ + 1]
            /\ \E code \in IF reqs[c].kind = "start" THEN {201, 500} ELSE {200, 404, 500} :
                 reqs' = [reqs EXCEPT ![c].pc = "idle", ![c].status = code,
                                      ![c].calls = @ + 1]
    /\ UNCHANGED <<issued, ClientVars>>

NextClient == \E c \in Handlers : addCSRFHeader(c) \/ ClientDo(c)

SpecClient == InitClient /\ [][NextClient]_vars

\* C37: no state-changing call a client sends is answered 403 for its CSRF
\* token, the first call no more than the ones after it.
ClientCallsNotForbidden == \A c \in Handlers : reqs[c].status # 403

\* ------------------------------------------------------------------------
\* a stop the runtime refuses
\* ------------------------------------------------------------------------
\* C38: a stop whose container the runtime fails to stop is answered 500,
\* and nothing it did, from its arrival to the failure, changed the registry,
\* the reserved ports, the containers, the pollers or the event log: the
\* instance is as it was for the stop that comes next.
FailedStopLeavesInstance ==
    [][\A h \in Handlers :
          /\ (At(h, "stop", "stop") /\ reqs'[h].pc = "done")
             => /\ reqs'[h].status = 500
                /\ UNCHANGED <<servers, ports, containers, pollCancels, pollers, events>>
          /\ (reqs'[h] # reqs[h] /\ reqs'[h].kind = "stop" /\ reqs'[h].pc \in {"get", "stop"})
             => UNCHANGED <<servers, ports, containers, pollCancels, pollers, events>>]_vars

\* the runtime failed one stop of a running instance, which stayed registered
\* with its port and its poller, and a stop of the same name after it was
\* answered 200
FailedStopThenStopped ==
    \E g, h \in Handlers :
       /\ At(g, "stop", "done") /\ reqs[g].status = 500 /\ reqs[g].fault
       /\ At(h, "stop", "done") /\ reqs[h].status = 200
       /\ reqs[h].name = reqs[g].name
       /\ reqs[h].id > reqs[g].id

\* ------------------------------------------------------------------------
\* starts against a fleet that holds the whole automatic port range
\* ------------------------------------------------------------------------
\* the ports GetNextAvailablePort scans from docker.GetDefaultPort()
ScanRange == DefaultPort .. (DefaultPort + PortScan - 1)

\* the name of the instance started on port p (one name per port, none of
\* them a name the starts of this specification draw)
NameOn(p) == <<"n", "-">> \o Itoa(p)

\* the fleet after PortScan successful starts, one on each port of the range
InitFull ==
    /\ servers = [n \in {NameOn(p) : p \in ScanRange} |->
                    ServerInfo(n, SubSeq(n, 3, Len(n)), 0, 0)]
    /\ ports = {Itoa(p) : p \in ScanRange}
    /\ reqs = [h \in Handlers |-> Idle]
    /\ issued = 0
    /\ overlap = FALSE
    /\ image = TRUE
    /\ containers = {NameOn(p) : p \in ScanRange}
    /\ pollCancels = [n \in {NameOn(p) : p \in ScanRange} |-> Atoi(SubSeq(n, 3, Len(n)))]
    /\ pollers = [p \in ScanRange |-> [name |-> NameOn(p), cancelled |-> FALSE]]
    /\ events = [p \in 1..PortScan |->
                   [type |-> "start", name |-> NameOn(DefaultPort + p - 1),
                    port |-> Itoa(DefaultPort + p - 1)]]
    /\ NoSecurity
    /\ NoBuild
    /\ NoMatch

NextFull == \E h \in Handlers : StartServer(h)

SpecFull == InitFull /\ [][NextFull]_vars

\* C39: with every port of the range reserved, a start without a port never
\* registers its instance on a port a live instance holds.  (A start that
\* names a port of the range is answered 409 and registers nothing.)
FullRangeStartTakesNoHeldPort ==
    [][\A h \in Handlers :
          (At(h, "start", "add") /\ reqs'[h].pc = "poll")
          => reqs[h].port \notin HeldPorts]_vars

====
